---- MODULE Spec2Model ----
(***************************************************************************)
(* State-machine model of the cognitive core of KleaSCM/cognitive:         *)
(*   - MemoryManager (src/memory.cpp): memory store, per-session index and *)
(*     clusters, recency cache, trait baselines;                           *)
(*   - PersonaSystem (src/persona_system.cpp): trait ledger with decay and *)
(*     propagation, short/long-term memories, emotional resonances.        *)
(*                                                                         *)
(* Numbers.  The code computes on doubles; the model computes on fixed     *)
(* point integers.  PersonaSystem quantities are in units of 1/Scale       *)
(* (1e-4), MemoryManager quantities in units of 1/MemScale (1e-7, one      *)
(* digit finer than the six decimals std::to_string keeps).  Time is in    *)
(* minutes; the code's duration_cast<hours> is the truncating Hours.       *)
(***************************************************************************)
EXTENDS Integers, Sequences, FiniteSets, TLC

Scale == 100 * 100
MemScale == 1000 * Scale

\* ------------------------------------------------------------------ bounds
\* Last instant (minutes) the clock may reach.
MaxTime == 1860
\* Last instant (minutes) the clock may reach while the trait ledger is
\* exercised.
MaxTraitTime == 135
\* Last instant (minutes) the clock may reach while the store is exercised.
MaxStoreTime == 600
\* Cache capacity used by the model (the constructor's default is 1000).
MaxCacheSize == 2
\* Cap on the total number of cluster members (clusters only ever grow).
MaxClusterEntries == 3
\* Cap on the magnitude of an unclamped trait baseline, in whole units.
MaxBaseline == 2
\* Depth at which the recursion of UpdateTrait is cut (stack exhaustion).
MaxDepth == 4
\* Caps on the PersonaSystem collections.
MaxResonances == 2
MaxPersonaMemories == 2
MaxPersonaOps == 4
\* Connections a persona's memory holds before CreateMemoryConnections is
\* no longer called.
MaxConnections == 2
\* Samples a trait's history is given.
MaxSamples == 102
\* Minutes over which persona switches are followed.
MaxSwitchTime == 12

\* --------------------------------------------------------------- helpers
Min(a, b) == IF a < b THEN a ELSE b
Max(a, b) == IF a > b THEN a ELSE b
Abs(a) == IF a < 0 THEN -a ELSE a

\* std::chrono::duration_cast<std::chrono::hours>(d).count(), d in minutes.
Hours(d) == d \div 60

\* exp(-k/10) for k = 0..100, in units of 1/Scale.
ExpTenths ==
  << 10000, 9048, 8187, 7408, 6703, 6065, 5488, 4966, 4493, 4066, 3679,
     3329, 3012, 2725, 2466, 2231, 2019, 1827, 1653, 1496, 1353, 1225,
     1108, 1003, 907, 821, 743, 672, 608, 550, 498, 450, 408, 369, 334,
     302, 273, 247, 224, 202, 183, 166, 150, 136, 123, 111, 101, 91, 82,
     74, 67, 61, 55, 50, 45, 41, 37, 33, 30, 27, 25, 22, 20, 18, 17, 15,
     14, 12, 11, 10, 9, 8, 7, 7, 6, 6, 5, 5, 4, 4, 3, 3, 3, 2, 2, 2, 2, 2,
     2, 1, 1, 1, 1, 1, 1, 1, 1, 1, 1, 1, 0 >>

\* std::exp(-x) for x >= 0 given in units of 1e-6; result in units of 1/Scale.
\* Range reduction x = k/10 + r with 0 <= r < 0.1, exp(-r) by its Taylor
\* polynomial of degree 3 on r in units of 1e-4.
ExpNeg(xMicro) ==
  LET k == xMicro \div 100000
      r == (xMicro % 100000) \div 100
      p == Scale - r + ((r * r) \div (2 * Scale))
                 - ((r * r * r) \div (6 * Scale * Scale))
  IN  IF k >= Len(ExpTenths) THEN 0
      ELSE (ExpTenths[k + 1] * p) \div Scale

\* a * b for two fixed-point numbers in units of 1/Scale.
Mul(a, b) == (a * b) \div Scale

\* A function without its key k.
Without(f, k) == [x \in DOMAIN f \ {k} |-> f[x]]
\* A function with key k set to v (std::map::operator[] assignment).
With(f, k, v) == [x \in DOMAIN f \cup {k} |-> IF x = k THEN v ELSE f[x]]
EmptyMap == [x \in {} |-> 0]

RECURSIVE SumSeq(_)
SumSeq(s) == IF s = <<>> THEN 0 ELSE Head(s) + SumSeq(Tail(s))

RECURSIVE Flatten(_)
Flatten(ss) == IF ss = <<>> THEN <<>> ELSE Head(ss) \o Flatten(Tail(ss))

VARIABLES
  now,              \* std::chrono::system_clock::now(), minutes
  lastOp,           \* the last operation called and what it returned
  \* ---- MemoryManager
  is_initialized_,  \* MemoryManager::is_initialized_
  memories_,        \* MemoryManager::memories_ : id -> MemoryEvent
  db_memories,      \* rows of table "memories" behind db_ : id -> row
  memory_index,     \* GetMemoryContext("default").memory_index : id -> MemoryEvent
  clusters,         \* GetMemoryContext("default").clusters : Seq(Seq(MemoryEvent))
  memory_connections, \* GetMemoryContext("default").MemoryConnections
  contexts,         \* GetMemoryContext(s) for the other sessions s
  memory_cache_,    \* MemoryManager::memory_cache_ : id -> last_accessed
  memory_index_,    \* MemoryManager::memory_index_ : key -> Seq(id)
  trait_baselines_, \* MemoryManager::trait_baselines_ : name -> CurrentValue
  traitEvolutionMetrics_, \* MemoryManager::traitEvolutionMetrics_ : name -> metrics
  admitted,         \* history: id -> the memory of the last successful Save/Update
  \* ---- PersonaSystem
  activePersona_,   \* PersonaSystem::activePersona_ (NoPersona when null)
  personas_,        \* PersonaSystem::personas_ : id -> the persona's Active, LastUsed
  history_,         \* PersonaSystem::history_
  transitions_,     \* TransitionManager::transitions_ : << from, to >> -> tenths
  traits,           \* Personality.CoreTraits and DerivedTraits : name -> TraitEvolution
  TraitCorrelations,\* Personality.TraitCorrelations : key -> coefficient
  ShortTermMemories,\* activePersona_->Memory.ShortTermMemories
  LongTermMemories, \* activePersona_->Memory.LongTermMemories
  MemoryWeights,    \* activePersona_->Memory.MemoryWeights : type -> weight
  ActiveResonances, \* activePersona_->Memory.ActiveResonances
  EmotionalPatterns,\* activePersona_->Memory.EmotionalPatterns
  MemoryConnections,\* activePersona_->Memory.MemoryConnections
  cooldowns_,       \* TransitionManager::cooldowns_ : persona id -> time
  persona_db,       \* what PersonaSystem has written through db_
  crashed,          \* the process died (null dereference, stack exhaustion)
  personaOps        \* number of PersonaSystem mutations performed

mmVars == << is_initialized_, memories_, db_memories, memory_index, clusters,
             memory_connections, contexts,
             memory_cache_, memory_index_, trait_baselines_,
             traitEvolutionMetrics_, admitted >>
psVars == << activePersona_, personas_, history_, transitions_, traits, TraitCorrelations, ShortTermMemories,
             LongTermMemories, MemoryWeights, ActiveResonances,
             EmotionalPatterns, MemoryConnections, cooldowns_, persona_db,
             crashed, personaOps >>
vars == << now, lastOp, mmVars, psVars >>

\* ============================================================ MemoryManager
\* ------------------------------------------------------------------- data
NoMemory == [id |-> "none"]
\* Iteration order of the std::map containers keyed by memory id.
IdOrder == << "m1", "m2", "m3" >>
MemIds == {IdOrder[i] : i \in DOMAIN IdOrder}

\* struct MemoryEvent; content is kept as its whitespace-separated words.
MemoryEvent(id, content, importance, weight, influences, tags) ==
  [id |-> id, content |-> content, context |-> "chat",
   importance |-> importance, emotional_weight |-> weight,
   trait_influences |-> influences, tags |-> tags,
   created_at |-> 0, updated_at |-> 0]

\* The memories a caller may pass in.  MemA and MemB are the two memories of
\* the clustering scenario; MemA2 is MemA with updated importance;
\* MemC has a negative emotional weight.  MemA's importance has seven
\* decimals.
MemA == MemoryEvent("m1", << "trust", "you" >>, 1234567, 6000000,
                    [trust |-> 5000000], {"x"})
MemA2 == MemoryEvent("m1", << "trust", "you" >>, 9000000, 6000000,
                     [trust |-> 5000000], {"x"})
MemB == MemoryEvent("m2", << "warm", "talk" >>, 5000000, 6500000,
                    [trust |-> 4000000], {"x"})
MemC == MemoryEvent("m3", << "cold", "day" >>, 3000000, -2000000,
                    [calm |-> -3000000], {"y"})
\* MemD shares the trait trust and the tag x with MemA and lies within 0.2 of
\* its emotional weight; the influence it records on trust is negative.
MemD == MemoryEvent("m3", << "hard", "talk" >>, 5000000, 7200000,
                    [trust |-> -2000000], {"x"})
\* MemE says one word twice and carries that word as a tag as well.
MemE == MemoryEvent("m2", << "calm", "calm", "talk" >>, 5000000, 2000000,
                    [calm |-> 3000000], {"calm"})
\* MemF is a memory with two tags, stored under the id it is given.
MemF(id) == MemoryEvent(id, << "long", "walk" >>, 5000000, 6000000,
                        [trust |-> 5000000], {"x", "y"})
MemoryInputs == {MemA, MemA2, MemB, MemC, MemD, MemE}

\* ------------------------------------------------- persistence encodings
\* std::to_string(double): "%f", six decimals.  The string is represented by
\* the number of millionths it spells.
ToString6(x) == IF x >= 0 THEN (x + 5) \div 10 ELSE -((5 - x) \div 10)
\* std::stod of such a string.
Stod6(s) == s * 10
\* nlohmann::json(map).dump() and json::parse(..).get<map>(): an object is
\* its set of key/value members.
JsonDumpMap(m) == {<< k, m[k] >> : k \in DOMAIN m}
JsonParseMap(j) == [k \in {p[1] : p \in j} |-> (CHOOSE p \in j : p[1] = k)[2]]
\* nlohmann::json(set).dump() and json::parse(..).get<set>(): an array.
RECURSIVE JsonDumpSet(_)
JsonDumpSet(s) ==
  IF s = {} THEN <<>>
  ELSE LET x == CHOOSE x \in s : TRUE IN << x >> \o JsonDumpSet(s \ {x})
JsonParseSet(a) == {a[i] : i \in DOMAIN a}
\* system_clock::to_time_t / from_time_t (seconds).
ToTimeT(t) == t * 60
FromTimeT(s) == s \div 60

\* The parameter vector SaveMemory and UpdateMemory bind.
RowOf(memory) ==
  [id |-> memory.id, content |-> memory.content, context |-> memory.context,
   importance |-> ToString6(memory.importance),
   emotional_weight |-> ToString6(memory.emotional_weight),
   trait_influences |-> JsonDumpMap(memory.trait_influences),
   tags |-> JsonDumpSet(memory.tags),
   created_at |-> ToTimeT(memory.created_at),
   updated_at |-> ToTimeT(memory.updated_at)]

\* The fields LoadMemory reads back from result[0].
MemoryOfRow(row) ==
  [id |-> row.id, content |-> row.content, context |-> row.context,
   importance |-> Stod6(row.importance),
   emotional_weight |-> Stod6(row.emotional_weight),
   trait_influences |-> JsonParseMap(row.trait_influences),
   tags |-> JsonParseSet(row.tags),
   created_at |-> FromTimeT(row.created_at),
   updated_at |-> FromTimeT(row.updated_at)]

\* "UPDATE memories SET ... WHERE id = ?": every column but id and created_at.
UpdatedRow(old, memory) == [RowOf(memory) EXCEPT !.created_at = old.created_at]

\* ------------------------------------------------------- index, clusters
\* MemoryManager::UpdateMemoryIndex(sessionID, memory)
UpdateMemoryIndexOne(index, memory) == With(index, memory.id, memory)

\* MemoryManager::UpdateMemoryCluster(sessionID, memory): the first non-empty
\* cluster whose first member's weight is within 0.1 receives the memory,
\* otherwise a new cluster is appended.
AnyCluster(cluster, memory) == cluster # <<>>
ClusterMatches(cluster, memory) ==
  /\ cluster # <<>>
  /\ Abs(cluster[1].emotional_weight - memory.emotional_weight) < MemScale \div 10

UpdateMemoryCluster(cl, memory) ==
  LET hits == {i \in DOMAIN cl : ClusterMatches(cl[i], memory)}
  IN  IF hits = {} THEN Append(cl, << memory >>)
      ELSE LET i == CHOOSE i \in hits : \A j \in hits : i <= j
           IN  [cl EXCEPT ![i] = Append(@, memory)]

ClusterEntries(cl) == Len(Flatten(cl))

\* ---------------------------------------------------------------- sessions
\* The sessions a host serves.  SaveMemory, UpdateMemory and the periodic
\* passes name the session "default" themselves.
Sessions == {"default", "s1"}
\* GetMemoryContext(sessionID) before anything was put into it.
NoContexts ==
  [s \in Sessions \ {"default"} |->
     [memory_index |-> EmptyMap, clusters |-> <<>>]]

\* MemoryManager::UpdateMemoryIndex(): the keyword/tag index rebuilt from
\* memories_, words longer than 3 characters first, then tags, one push_back
\* for each occurrence.
IndexKeys(mems) ==
  UNION {{m.content[i] : i \in {j \in DOMAIN m.content : Len(m.content[j]) > 3}}
           \cup m.tags : m \in {mems[id] : id \in DOMAIN mems}}
Occurrences(m, k) ==
  Cardinality({i \in DOMAIN m.content : m.content[i] = k /\ Len(k) > 3})
    + (IF k \in m.tags THEN 1 ELSE 0)
Repeat(x, n) == [i \in 1..n |-> x]
RebuildIndex(mems) ==
  [k \in IndexKeys(mems) |->
     Flatten([j \in DOMAIN IdOrder |->
                IF IdOrder[j] \in DOMAIN mems
                  THEN Repeat(IdOrder[j], Occurrences(mems[IdOrder[j]], k))
                  ELSE <<>>])]

\* MemoryManager::RemoveMemory(id): drops the id from the recency cache, the
\* session index and every entry of the keyword/tag index.
RemoveMemory(st, id) ==
  [cache |-> Without(st.cache, id),
   index |-> Without(st.index, id),
   kindex |-> [k \in DOMAIN st.kindex |->
                 SelectSeq(st.kindex[k], LAMBDA x : x # id)]]

RECURSIVE RemoveAll(_, _)
RemoveAll(st, ids) ==
  IF ids = {} THEN st
  ELSE LET id == CHOOSE id \in ids : TRUE
       IN  RemoveAll(RemoveMemory(st, id), ids \ {id})

\* ------------------------------------------------------------------ cache
\* A faulty scan: erases begin() without looking for the oldest entry.
FirstEntry(cache) ==
  (SelectSeq(IdOrder, LAMBDA x : x \in DOMAIN cache))[1]

\* The entry UpdateCache's scan settles on: the first one, in iteration
\* order, whose last_accessed is minimal.
Oldest(cache) ==
  LET ids == SelectSeq(IdOrder, LAMBDA x : x \in DOMAIN cache)
      j == CHOOSE j \in DOMAIN ids :
             /\ \A k \in DOMAIN ids : cache[ids[j]] <= cache[ids[k]]
             /\ \A k \in 1..(j - 1) : cache[ids[k]] > cache[ids[j]]
  IN  ids[j]

\* A faulty loop: one erase per call, taken as soon as the cache is full.
EvictOneAtCapacity(cache) ==
  IF Cardinality(DOMAIN cache) >= MaxCacheSize
    THEN Without(cache, Oldest(cache))
    ELSE cache

\* The while loop of MemoryManager::UpdateCache.
RECURSIVE EvictLoop(_)
EvictLoop(cache) ==
  IF Cardinality(DOMAIN cache) > MaxCacheSize
    THEN EvictLoop(Without(cache, Oldest(cache)))
    ELSE cache

\* ---------------------------------------------------------------- pruning
\* PruneMemoriesBasedOnTraits, relevance term.  It sums, over the memory's
\* traits found in traitEvolutionMetrics_, |influence| * exp(-0.1 * hours
\* since metrics.LastUpdate).  Entries of traitEvolutionMetrics_ are only
\* ever default-constructed (UpdateTraitStability's operator[]); nothing
\* calls UpdateEvolutionMetrics, so LastUpdate is the epoch and the factor
\* is exp(-0.1 * hours since 1970), which is 0.
RelevanceScore(memory) == 0
\* Trait contribution term: |ShortTermSlope| * (1 - Volatility) over the
\* affected traits; slopes are computed from the historical values, which
\* stay empty for the same reason.
TraitContribution(memory) == 0
\* memory.EmotionalWeight * exp(-0.05 * hours since the memory's timestamp)
EmotionalImpact(memory, t) ==
  Mul(memory.emotional_weight \div 1000,
      ExpNeg(50000 * Hours(t - memory.created_at)))
\* exp(-0.1 * hours since the memory's timestamp)
TemporalDecay(memory, t) == ExpNeg(100000 * Hours(t - memory.created_at))
\* Ten times metrics.OverallScore (weights 0.3, 0.2, 0.3, 0.2).
OverallScore10(memory, t) ==
  3 * RelevanceScore(memory) + 2 * EmotionalImpact(memory, t)
    + 3 * TraitContribution(memory) + 2 * TemporalDecay(memory, t)
\* memoriesToPrune: OverallScore < 0.2
MemoriesToPrune(mems, t) ==
  {id \in DOMAIN mems : OverallScore10(mems[id], t) < 2 * Scale}

\* ------------------------------------------------------------- operations
\* What lastOp records: the operation, whether the operation before it was
\* the same one (with no clock step in between), its result (for a void
\* operation: whether it got past its guards), the id or name it was given,
\* whether its persistence call failed, and in out the memory it handed
\* back or, for an operation that hands nothing back, a note of the input
\* or effect the properties below refer to.
Returned(op, ok, id, out, dbFailed) ==
  [op |-> op, again |-> (lastOp.op = op), ok |-> ok, id |-> id, out |-> out,
   dbFailed |-> dbFailed]

\* MemoryManager::MemoryManager(): a fresh process over the same database.
Restart ==
  /\ is_initialized_' = FALSE
  /\ memories_' = EmptyMap
  /\ memory_index' = EmptyMap
  /\ clusters' = <<>>
  /\ memory_connections' = <<>>
  /\ contexts' = NoContexts
  /\ memory_cache_' = EmptyMap
  /\ memory_index_' = EmptyMap
  /\ trait_baselines_' = EmptyMap
  /\ traitEvolutionMetrics_' = EmptyMap
  /\ lastOp' = Returned("MemoryManager", TRUE, "none", NoMemory, FALSE)
  /\ UNCHANGED << now, db_memories, admitted, psVars >>

\* MemoryManager::Initialize()
Initialize(dbOk) ==
  /\ is_initialized_' = (is_initialized_ \/ dbOk)
  /\ lastOp' = Returned("Initialize", dbOk, "none", NoMemory, ~dbOk)
  /\ UNCHANGED << now, memory_connections, contexts, traitEvolutionMetrics_,
                  memories_, db_memories, memory_index, clusters,
                  memory_cache_, memory_index_, trait_baselines_, admitted,
                  psVars >>

\* MemoryManager::SaveMemory(memory); dbOk is what ExecuteQueryWithParams
\* returns.
SaveMemory(memory, dbOk) ==
  /\ ClusterEntries(clusters) < MaxClusterEntries
  /\ IF ~is_initialized_
       THEN /\ lastOp' = Returned("SaveMemory", FALSE, memory.id, NoMemory, FALSE)
            /\ UNCHANGED << memories_, db_memories, memory_index, clusters,
                            admitted >>
     ELSE IF ~dbOk
       THEN /\ lastOp' = Returned("SaveMemory", FALSE, memory.id, NoMemory, TRUE)
            /\ UNCHANGED << memories_, db_memories, memory_index, clusters,
                            admitted >>
     ELSE /\ db_memories' = With(db_memories, memory.id, RowOf(memory))
          /\ memories_' = With(memories_, memory.id, memory)
          /\ memory_index' = UpdateMemoryIndexOne(memory_index, memory)
          /\ clusters' = UpdateMemoryCluster(clusters, memory)
          /\ admitted' = With(admitted, memory.id, memory)
          /\ lastOp' = Returned("SaveMemory", TRUE, memory.id, NoMemory, FALSE)
  /\ UNCHANGED << now, memory_connections, contexts, traitEvolutionMetrics_,
                  is_initialized_, memory_cache_, memory_index_,
                  trait_baselines_, psVars >>

\* MemoryManager::LoadMemory(id, memory); dbOk: the SELECT returned its rows.
LoadMemory(id, dbOk) ==
  /\ IF ~is_initialized_
       THEN /\ lastOp' = Returned("LoadMemory", FALSE, id, NoMemory, FALSE)
            /\ UNCHANGED memories_
     ELSE IF id \in DOMAIN memories_
       THEN /\ lastOp' = Returned("LoadMemory", TRUE, id, memories_[id], FALSE)
            /\ UNCHANGED memories_
     ELSE IF ~dbOk \/ id \notin DOMAIN db_memories
       THEN /\ lastOp' = Returned("LoadMemory", FALSE, id, NoMemory, ~dbOk)
            /\ UNCHANGED memories_
     ELSE LET memory == MemoryOfRow(db_memories[id])
          IN  /\ memories_' = With(memories_, id, memory)
              /\ lastOp' = Returned("LoadMemory", TRUE, id, memory, FALSE)
  /\ UNCHANGED << now, memory_connections, contexts, traitEvolutionMetrics_,
                  is_initialized_, db_memories, memory_index, clusters,
                  memory_cache_, memory_index_, trait_baselines_, admitted,
                  psVars >>

\* MemoryManager::UpdateMemory(memory)
UpdateMemory(memory, dbOk) ==
  /\ ClusterEntries(clusters) < MaxClusterEntries
  /\ IF ~is_initialized_
       THEN /\ lastOp' = Returned("UpdateMemory", FALSE, memory.id, NoMemory, FALSE)
            /\ UNCHANGED << memories_, db_memories, memory_index, clusters,
                            admitted >>
     ELSE IF ~dbOk
       THEN /\ lastOp' = Returned("UpdateMemory", FALSE, memory.id, NoMemory, TRUE)
            /\ UNCHANGED << memories_, db_memories, memory_index, clusters,
                            admitted >>
     ELSE /\ db_memories' =
               IF memory.id \in DOMAIN db_memories
                 THEN [db_memories EXCEPT
                         ![memory.id] = UpdatedRow(@, memory)]
                 ELSE db_memories
          /\ memories_' = With(memories_, memory.id, memory)
          /\ memory_index' = UpdateMemoryIndexOne(memory_index, memory)
          /\ clusters' = UpdateMemoryCluster(clusters, memory)
          /\ admitted' = IF memory.id \in DOMAIN admitted
                           THEN With(admitted, memory.id, memory)
                           ELSE admitted
          /\ lastOp' = Returned("UpdateMemory", TRUE, memory.id, NoMemory, FALSE)
  /\ UNCHANGED << now, memory_connections, contexts, traitEvolutionMetrics_,
                  is_initialized_, memory_cache_, memory_index_,
                  trait_baselines_, psVars >>

\* MemoryManager::DeleteMemory(id)
DeleteMemory(id, dbOk) ==
  /\ IF ~is_initialized_ \/ ~dbOk
       THEN /\ lastOp' = Returned("DeleteMemory", FALSE, id, NoMemory,
                                  is_initialized_)
            /\ UNCHANGED << memories_, db_memories, memory_index,
                            memory_cache_, memory_index_, admitted >>
       ELSE LET st == RemoveMemory([cache |-> memory_cache_,
                                    index |-> memory_index,
                                    kindex |-> memory_index_], id)
            IN  /\ db_memories' = Without(db_memories, id)
                /\ memories_' = Without(memories_, id)
                /\ memory_cache_' = st.cache
                /\ memory_index' = st.index
                /\ memory_index_' = st.kindex
                /\ admitted' = Without(admitted, id)
                /\ lastOp' = Returned("DeleteMemory", TRUE, id, NoMemory, FALSE)
  /\ UNCHANGED << now, memory_connections, contexts, traitEvolutionMetrics_,
                  is_initialized_, clusters, trait_baselines_, psVars >>

\* MemoryManager::PruneMemoriesBasedOnTraits()
PruneMemoriesBasedOnTraits ==
  LET st == RemoveAll([cache |-> memory_cache_, index |-> memory_index,
                       kindex |-> memory_index_],
                      MemoriesToPrune(memories_, now))
  IN  /\ memory_cache_' = st.cache
      /\ memory_index' = st.index
      /\ memory_index_' = st.kindex
      /\ lastOp' = Returned("PruneMemoriesBasedOnTraits", TRUE, "none",
                            NoMemory, FALSE)
      /\ UNCHANGED << now, memory_connections, contexts, traitEvolutionMetrics_,
                          is_initialized_, memories_, db_memories, clusters,
                      trait_baselines_, admitted, psVars >>

\* MemoryManager::UpdateMemoryIndex()
UpdateMemoryIndex ==
  /\ memory_index_' = IF is_initialized_ THEN RebuildIndex(memories_)
                                         ELSE memory_index_
  /\ lastOp' = Returned("UpdateMemoryIndex", is_initialized_, "none",
                        NoMemory, FALSE)
  /\ UNCHANGED << now, memory_connections, contexts, traitEvolutionMetrics_,
                  is_initialized_, memories_, db_memories, memory_index,
                  clusters, memory_cache_, trait_baselines_, admitted, psVars >>

\* MemoryManager::UpdateCache()
UpdateCache ==
  /\ memory_cache_' = IF is_initialized_ THEN EvictLoop(memory_cache_)
                                         ELSE memory_cache_
  /\ lastOp' = Returned("UpdateCache", is_initialized_, "none",
                        [id |-> "none",
                         evicted |-> DOMAIN memory_cache_ \ DOMAIN memory_cache_'],
                        FALSE)
  /\ UNCHANGED << now, memory_connections, contexts, traitEvolutionMetrics_,
                  is_initialized_, memories_, db_memories, memory_index,
                  clusters, memory_index_, trait_baselines_, admitted, psVars >>

\* An access to a stored memory through the recency cache: the cache records
\* the memory's last-access time.
CacheAccess(id) ==
  /\ is_initialized_
  /\ id \in DOMAIN memories_
  /\ memory_cache_' = With(memory_cache_, id, now)
  /\ lastOp' = Returned("CacheAccess", TRUE, id, NoMemory, FALSE)
  /\ UNCHANGED << now, memory_connections, contexts, traitEvolutionMetrics_,
                  is_initialized_, memories_, db_memories, memory_index,
                  clusters, memory_index_, trait_baselines_, admitted, psVars >>

\* MemoryManager::UpdateTraitBaseline(traitName, influence); it throws when
\* the manager is not initialized, which the note of the call records.
BaselineOf(baselines, traitName) ==
  IF traitName \in DOMAIN baselines THEN baselines[traitName] ELSE 0

UpdateTraitBaseline(traitName, influence) ==
  /\ Abs(BaselineOf(trait_baselines_, traitName) + influence)
       <= MaxBaseline * MemScale
  /\ IF ~is_initialized_
       THEN /\ lastOp' = Returned("UpdateTraitBaseline", FALSE, traitName,
                                  [id |-> "none", threw |-> TRUE], FALSE)
            /\ UNCHANGED trait_baselines_
       ELSE /\ trait_baselines_' =
                 With(trait_baselines_, traitName,
                      BaselineOf(trait_baselines_, traitName) + influence)
            /\ lastOp' = Returned("UpdateTraitBaseline", TRUE, traitName,
                                  NoMemory, FALSE)
  /\ UNCHANGED << now, memory_connections, contexts, traitEvolutionMetrics_,
                  is_initialized_, memories_, db_memories, memory_index,
                  clusters, memory_cache_, memory_index_, admitted, psVars >>

\* MemoryManager::UpdateTraitBaselines(): each known trait takes the mean of
\* the influences the stored memories have on it.
MeanInfluence(mems, traitName, old) ==
  LET ids == SelectSeq(IdOrder, LAMBDA x :
                 x \in DOMAIN mems
                 /\ traitName \in DOMAIN mems[x].trait_influences)
      total == SumSeq([i \in DOMAIN ids |->
                         mems[ids[i]].trait_influences[traitName]])
  IN  IF Len(ids) > 0 THEN total \div Len(ids) ELSE old

UpdateTraitBaselines ==
  /\ trait_baselines_' =
       IF is_initialized_
         THEN [t \in DOMAIN trait_baselines_ |->
                 MeanInfluence(memories_, t, trait_baselines_[t])]
         ELSE trait_baselines_
  /\ lastOp' = Returned("UpdateTraitBaselines", is_initialized_, "none",
                        NoMemory, FALSE)
  /\ UNCHANGED << now, memory_connections, contexts, traitEvolutionMetrics_,
                  is_initialized_, memories_, db_memories, memory_index,
                  clusters, memory_cache_, memory_index_, admitted, psVars >>

\* ------------------------------------------------------------ transaction
\* MemoryManager::SaveToDatabase().  beginOk and commitOk are what
\* BeginTransaction and CommitTransaction return; failAt is the position of
\* the db_->SaveMemory call that returns false (0: none does).
\* emotional_states_ is filled by LoadFromDatabase alone and is empty here.
\* The note of the call lists the calls made on db_ in their order, each
\* with what it returned.  The rows reach the database when the transaction
\* commits.
SaveToDatabase(beginOk, failAt, commitOk) ==
  LET ids == SelectSeq(IdOrder, LAMBDA id : id \in DOMAIN memories_)
      saves(n, failed) ==
        [i \in 1..n |-> [call |-> "SaveMemory", ok |-> ~(failed /\ i = n)]]
      begin == << [call |-> "BeginTransaction", ok |-> beginOk] >>
      rollback == << [call |-> "RollbackTransaction", ok |-> TRUE] >>
      calls ==
        IF ~is_initialized_ THEN <<>>
        ELSE IF ~beginOk THEN begin \o rollback
        ELSE IF failAt > 0 THEN begin \o saves(failAt, TRUE) \o rollback
        ELSE begin \o saves(Len(ids), FALSE)
               \o << [call |-> "CommitTransaction", ok |-> commitOk] >>
               \o (IF commitOk THEN <<>> ELSE rollback)
      committed == is_initialized_ /\ beginOk /\ failAt = 0 /\ commitOk
  IN  /\ failAt \in 0..Len(ids)
      /\ db_memories' =
           IF committed
             THEN [id \in DOMAIN db_memories \cup DOMAIN memories_ |->
                     IF id \in DOMAIN memories_ THEN RowOf(memories_[id])
                     ELSE db_memories[id]]
             ELSE db_memories
      /\ lastOp' = Returned("SaveToDatabase", committed, "none",
                            [id |-> "none", calls |-> calls,
                             threw |-> ~committed],
                            is_initialized_ /\ ~committed)
      /\ UNCHANGED << now, memory_connections, contexts,
                      traitEvolutionMetrics_, is_initialized_, memories_,
                      memory_index, clusters, memory_cache_, memory_index_,
                      trait_baselines_, admitted, psVars >>

\* ------------------------------------------------------ evolution metrics
\* struct TraitEvolutionMetrics as std::map::operator[] creates it; the
\* default time_point is the epoch, long before any call.
NoMetrics ==
  [HistoricalValues |-> <<>>, ShortTermChange |-> 0, LongTermTrend |-> 0,
   Volatility |-> 0, Confidence |-> 0, LastUpdate |-> -100000]
MetricsOf(metrics, traitName) ==
  IF traitName \in DOMAIN metrics THEN metrics[traitName] ELSE NoMetrics

\* The size the history is cut back to (line 759).
HistoryWindow == 100

\* A history that is never cut.
KeepAll(history) == history

\* Lines 759-761: erase(begin()) once the size exceeds the window.
Trimmed(history) ==
  IF Len(history) > HistoryWindow THEN Tail(history) ELSE history

\* Lines 769-781: mean of the last ten samples minus mean of the first ten.
LongTermTrend(history) ==
  SumSeq(SubSeq(history, Len(history) - 9, Len(history))) \div 10
    - SumSeq(SubSeq(history, 1, 10)) \div 10

\* MemoryManager::CalculateTraitConfidence.  Nothing fills the supporting
\* and conflicting memories of traitBaselines_, so the memory support score
\* is 0 / (0 + 0 + 1).
CalculateTraitConfidence(m) ==
  ((MemScale - m.Volatility) * 4) \div 10
    + (ExpNeg(Abs(m.LongTermTrend) \div (MemScale \div 1000000))
         * (MemScale \div Scale) * 3) \div 10

\* MemoryManager::UpdateEvolutionMetrics(traitName, newValue), a private
\* member function that no other function of the class calls; the action is
\* a direct call of it.
UpdateEvolutionMetrics(traitName, newValue) ==
  /\ LET m == MetricsOf(traitEvolutionMetrics_, traitName)
         h == Trimmed(Append(m.HistoricalValues, newValue))
         m2 == [m EXCEPT
                  !.HistoricalValues = h,
                  !.ShortTermChange =
                     IF Len(h) >= 2 THEN newValue - h[Len(h) - 1] ELSE @,
                  !.LongTermTrend =
                     IF Len(h) >= 10 THEN LongTermTrend(h) ELSE @]
     IN  traitEvolutionMetrics_' =
           With(traitEvolutionMetrics_, traitName,
                [m2 EXCEPT !.Confidence = CalculateTraitConfidence(m2),
                           !.LastUpdate = now])
  /\ lastOp' = Returned("UpdateEvolutionMetrics", TRUE, traitName,
                        [id |-> "none", newValue |-> newValue], FALSE)
  /\ UNCHANGED << now, memory_connections, contexts, is_initialized_,
                  memories_, db_memories, memory_index, clusters,
                  memory_cache_, memory_index_, trait_baselines_, admitted,
                  psVars >>

\* ----------------------------------------------------------- associations
\* Iteration order of the std::map of trait influences.
TraitOrder == << "calm", "trust" >>

\* MemoryManager::UpdateMemoryAssociations(), lines 1246-1262: half the sum
\* of the smaller influence of each shared trait and of the number of
\* shared tags.
ConnectionStrength(mem1, mem2) ==
  LET traitStrength ==
        SumSeq([i \in DOMAIN TraitOrder |->
                  IF /\ TraitOrder[i] \in DOMAIN mem1.trait_influences
                     /\ TraitOrder[i] \in DOMAIN mem2.trait_influences
                    THEN Min(mem1.trait_influences[TraitOrder[i]],
                             mem2.trait_influences[TraitOrder[i]])
                    ELSE 0])
      tagStrength == Cardinality(mem1.tags \cap mem2.tags) * MemScale
  IN  (traitStrength + tagStrength) \div 2

\* The two loops of UpdateMemoryAssociations (lines 1238-1267): pairs with
\* mem1.first < mem2.first, in map order, stronger than 0.3.
Associations(mems) ==
  Flatten([i \in DOMAIN IdOrder |->
    Flatten([j \in DOMAIN IdOrder |->
      IF /\ IdOrder[i] \in DOMAIN mems
         /\ IdOrder[j] \in DOMAIN mems
         /\ i < j
         /\ ConnectionStrength(mems[IdOrder[i]], mems[IdOrder[j]])
              > (3 * MemScale) \div 10
        THEN << [SourceMemory |-> IdOrder[i], TargetMemory |-> IdOrder[j],
                 Strength |-> ConnectionStrength(mems[IdOrder[i]],
                                                 mems[IdOrder[j]])] >>
        ELSE <<>>])])

\* A pass that keeps what it finds.
Kept(connections) == connections
\* context.MemoryConnections.clear() (line 1235)
Cleared(connections) == <<>>

\* The connections that name a memory that is not stored.
Stale(connections, mems) ==
  {i \in DOMAIN connections :
     \/ connections[i].SourceMemory \notin DOMAIN mems
     \/ connections[i].TargetMemory \notin DOMAIN mems}

\* MemoryManager::UpdateMemoryAssociations(); it throws when the manager is
\* not initialized.  The note counts the connections of before the call
\* that named a memory no longer stored.
UpdateMemoryAssociations ==
  /\ memory_connections' =
       IF is_initialized_
         THEN Cleared(memory_connections) \o Associations(memories_)
         ELSE memory_connections
  /\ lastOp' = Returned("UpdateMemoryAssociations", is_initialized_, "none",
                        [id |-> "none", threw |-> ~is_initialized_,
                         stale |->
                           Cardinality(Stale(memory_connections, memories_))],
                        FALSE)
  /\ UNCHANGED << now, contexts, traitEvolutionMetrics_, is_initialized_,
                  memories_, db_memories,
                  memory_index, clusters, memory_cache_, memory_index_,
                  trait_baselines_, admitted, psVars >>

\* UpdateMemoryCluster for each memory of ms in turn.
RECURSIVE ClusterEach(_, _)
ClusterEach(cl, ms) ==
  IF ms = <<>> THEN cl
  ELSE ClusterEach(UpdateMemoryCluster(cl, Head(ms)), Tail(ms))

\* MemoryManager::UpdateMemoryWeightsWithEmotion(): every stored memory gains
\* half its emotional weight in importance, in place, and goes through
\* UpdateMemory, which on a successful UPDATE stores it, indexes it and
\* clusters it again.
UpdateMemoryWeightsWithEmotion(dbOk) ==
  /\ ClusterEntries(clusters) < MaxClusterEntries
  /\ IF ~is_initialized_
       THEN UNCHANGED << memories_, db_memories, memory_index, clusters,
                         admitted >>
       ELSE LET boosted ==
                  [id \in DOMAIN memories_ |->
                     [memories_[id] EXCEPT
                        !.importance = @ + memories_[id].emotional_weight \div 2]]
                ids == SelectSeq(IdOrder, LAMBDA id : id \in DOMAIN memories_)
            IN  /\ memories_' = boosted
                /\ IF dbOk
                     THEN /\ db_memories' =
                               [id \in DOMAIN db_memories |->
                                  IF id \in DOMAIN boosted
                                    THEN UpdatedRow(db_memories[id], boosted[id])
                                    ELSE db_memories[id]]
                          /\ memory_index' =
                               [id \in DOMAIN memory_index \cup DOMAIN boosted |->
                                  IF id \in DOMAIN boosted THEN boosted[id]
                                  ELSE memory_index[id]]
                          /\ clusters' =
                               ClusterEach(clusters,
                                           [i \in DOMAIN ids |-> boosted[ids[i]]])
                          /\ admitted' =
                               [id \in DOMAIN admitted |->
                                  IF id \in DOMAIN boosted THEN boosted[id]
                                  ELSE admitted[id]]
                     ELSE UNCHANGED << db_memories, memory_index, clusters,
                                       admitted >>
  /\ lastOp' = Returned("UpdateMemoryWeightsWithEmotion", is_initialized_,
                        "none", NoMemory, is_initialized_ /\ ~dbOk)
  /\ UNCHANGED << now, memory_connections, contexts, traitEvolutionMetrics_,
                  is_initialized_, memory_cache_,
                  memory_index_, trait_baselines_, psVars >>

\* MemoryManager::UpdateMemoryIndex(sessionID, memory), the public entry.
UpdateMemoryIndexFor(sessionID, memory) ==
  /\ IF sessionID = "default"
       THEN /\ memory_index' = UpdateMemoryIndexOne(memory_index, memory)
            /\ UNCHANGED contexts
       ELSE /\ contexts' =
                 [contexts EXCEPT ![sessionID].memory_index =
                    UpdateMemoryIndexOne(@, memory)]
            /\ UNCHANGED memory_index
  /\ lastOp' = Returned("UpdateMemoryIndex(sessionID, memory)", TRUE,
                        memory.id, NoMemory, FALSE)
  /\ UNCHANGED << now, memory_connections, traitEvolutionMetrics_,
                  is_initialized_, memories_,
                  db_memories, clusters, memory_cache_, memory_index_,
                  trait_baselines_, admitted, psVars >>

\* MemoryManager::UpdateMemoryCluster(sessionID, memory), the public entry.
UpdateMemoryClusterFor(sessionID, memory) ==
  /\ IF sessionID = "default"
       THEN /\ ClusterEntries(clusters) < MaxClusterEntries
            /\ clusters' = UpdateMemoryCluster(clusters, memory)
            /\ UNCHANGED contexts
       ELSE /\ ClusterEntries(contexts[sessionID].clusters) < MaxClusterEntries
            /\ contexts' =
                 [contexts EXCEPT ![sessionID].clusters =
                    UpdateMemoryCluster(@, memory)]
            /\ UNCHANGED clusters
  /\ lastOp' = Returned("UpdateMemoryCluster(sessionID, memory)", TRUE,
                        memory.id, NoMemory, FALSE)
  /\ UNCHANGED << now, memory_connections, traitEvolutionMetrics_,
                  is_initialized_, memories_,
                  db_memories, memory_index, memory_cache_, memory_index_,
                  trait_baselines_, admitted, psVars >>

\* A host admits a memory on behalf of a session: SaveMemory is the
\* admission call and takes no session.
Admit(sessionID, memory, dbOk) == SaveMemory(memory, dbOk)

\* The clock moves on by dt minutes, up to the horizon explored.
Advance(dt, horizon) ==
  /\ now + dt <= horizon
  /\ now' = now + dt
  /\ lastOp' = Returned("Advance", TRUE, "none", NoMemory, FALSE)
  /\ UNCHANGED << mmVars, psVars >>

\* ============================================================ PersonaSystem
NoPersona == "none"
\* personas_ after InitializeDefaultPersonas().
Personas == {"sapphic_teaser"}

\* struct TraitEvolution (Evidence and RelatedTraits are written, never read).
TraitEvolution(base, decay, reinforcement, core) ==
  [BaseValue |-> base, CurrentValue |-> base, DecayRate |-> decay,
   ReinforcementRate |-> reinforcement, LastUpdated |-> 0, Core |-> core]

\* Personality.CoreTraits and DerivedTraits of the default persona.
DefaultTraits ==
  [sapphic_identity    |-> TraitEvolution(9000, 100, 1500, TRUE),
   clinginess          |-> TraitEvolution(7000, 200, 2000, TRUE),
   emotional_awareness |-> TraitEvolution(8000, 100, 1000, TRUE),
   flirtiness          |-> TraitEvolution(6000, 300, 2500, FALSE),
   arousal             |-> TraitEvolution(4000, 500, 3000, FALSE)]

\* Personality.TraitCorrelations of the default persona.
DefaultCorrelations ==
  [sapphic_identity_emotional_awareness |-> 8000,
   sapphic_identity_arousal             |-> 7000,
   clinginess_emotional_awareness       |-> 6000,
   flirtiness_arousal                   |-> 9000]

\* Iteration order of TraitCorrelations (sorted keys) over the keys the model
\* can hold.
KeyOrder ==
  << "arousal_flirtiness", "clinginess_emotional_awareness",
     "clinginess_flirtiness", "flirtiness_arousal",
     "sapphic_identity_arousal", "sapphic_identity_emotional_awareness" >>

\* Iteration order of a std::map keyed by trait name.
NameOrder ==
  << "arousal", "clinginess", "emotional_awareness", "flirtiness",
     "sapphic_identity" >>

\* key.find(name) != std::string::npos
Find(key, name) ==
  \E i \in 1..(Len(key) - Len(name) + 1) :
     SubSeq(key, i, i + Len(name) - 1) = name
\* key.substr(pos), for pos <= key.size()
Substr(key, pos) == SubSeq(key, pos + 1, Len(key))

\* A faulty factor: the exponent's sign is lost, exp(+DecayRate * time).
GrowthFactor(trait, t) ==
  (Scale * Scale)
    \div ExpNeg((trait.DecayRate * 100 * Hours(t - trait.LastUpdated)) \div 24)

\* exp(-trait.DecayRate * timeSinceUpdate), timeSinceUpdate = whole hours
\* since LastUpdated divided by 24.0.
DecayFactor(trait, t) ==
  ExpNeg((trait.DecayRate * 100 * Hours(t - trait.LastUpdated)) \div 24)

\* std::min(1.0, std::max(0.0, x))
Clamp01(x) == Min(Scale, Max(0, x))

\* Lines 314-328 of UpdateTrait: decay, reinforcement, clamp, timestamp.
Reinforce(trait, influence, t) ==
  [trait EXCEPT
     !.CurrentValue = Clamp01(Mul(trait.CurrentValue, DecayFactor(trait, t))
                              + Mul(influence, trait.ReinforcementRate)),
     !.LastUpdated = t]

\* PersonaSystem::UpdateTrait with an active persona, and the
\* PropagateTraitInfluence loop it ends with.  st carries the traits, the
\* correlation table, the trait names saved through db_.SaveTrait and
\* whether the call chain died (recursion deeper than MaxDepth exhausts the
\* stack; substr beyond the key's end throws) and, in hops, the deepest
\* nesting of UpdateTrait calls reached (0 for the caller's own call).
RECURSIVE UpdateTraitRec(_, _, _, _, _)
RECURSIVE PropagateTraitInfluence(_, _, _, _, _, _)
UpdateTraitRec(st, traitName, influence, t, depth) ==
  IF st.dead THEN st
  ELSE IF depth > MaxDepth THEN [st EXCEPT !.dead = TRUE]
  ELSE LET saved == [st EXCEPT !.saved = @ \cup {traitName},
                              !.hops = Max(@, depth)]
       IN  IF traitName \notin DOMAIN st.traits THEN saved
           ELSE PropagateTraitInfluence(
                  [saved EXCEPT !.traits[traitName] = Reinforce(@, influence, t)],
                  traitName, influence, t, depth, 1)

PropagateTraitInfluence(st, traitName, influence, t, depth, i) ==
  IF st.dead \/ i > Len(KeyOrder) THEN st
  ELSE LET key == KeyOrder[i]
       IN  IF key \in DOMAIN st.corr /\ Find(key, traitName)
             THEN IF Len(traitName) + 1 > Len(key)
                    THEN [st EXCEPT !.dead = TRUE]
                    ELSE PropagateTraitInfluence(
                           UpdateTraitRec(st, Substr(key, Len(traitName) + 1),
                                          Mul(influence, st.corr[key]), t,
                                          depth + 1),
                           traitName, influence, t, depth, i + 1)
             ELSE PropagateTraitInfluence(st, traitName, influence, t, depth,
                                          i + 1)

TraitState == [traits |-> traits, corr |-> TraitCorrelations,
               saved |-> {}, dead |-> FALSE, hops |-> 0]

SavedTraits(names, dbOk) ==
  IF dbOk THEN {<< "trait", n >> : n \in names} ELSE {}

PReturned(op, ok, id, dbFailed) == Returned(op, ok, id, NoMemory, dbFailed)

\* A transition manager without cooldowns.
NoCooldown(targetPersonaID) == targetPersonaID \in Personas

\* TransitionManager::CanTransition via PersonaSystem::CanTransition
CanTransition(targetPersonaID) ==
  /\ targetPersonaID \in Personas
  /\ \/ targetPersonaID \notin DOMAIN cooldowns_
     \/ now - cooldowns_[targetPersonaID] >= 5

\* PersonaSystem::SwitchPersona(targetPersonaID, reason): the old persona is
\* deactivated, the target activated and stamped, the event pushed onto
\* history_, and TransitionManager::ApplyTransition records the cooldown
\* and adds 0.1 to transitions_[from][to].
SwitchPersona(targetPersonaID) ==
  /\ ~crashed
  /\ personaOps < MaxPersonaOps
  /\ personaOps' = personaOps + 1
  /\ IF CanTransition(targetPersonaID)
       THEN LET oldPersonaID ==
                  IF activePersona_ = NoPersona THEN "" ELSE activePersona_
                deactivated ==
                  [p \in DOMAIN personas_ |->
                     IF p = activePersona_
                       THEN [personas_[p] EXCEPT !.Active = FALSE]
                       ELSE personas_[p]]
                key == << oldPersonaID, targetPersonaID >>
            IN  /\ personas_' =
                     [deactivated EXCEPT
                        ![targetPersonaID] = [Active |-> TRUE,
                                              LastUsed |-> now]]
                /\ activePersona_' = targetPersonaID
                /\ history_' =
                     Append(history_,
                            [Timestamp |-> now, Type |-> "transition",
                             FromPersona |-> oldPersonaID,
                             ToPersona |-> targetPersonaID])
                /\ cooldowns_' = With(cooldowns_, targetPersonaID, now)
                /\ transitions_' =
                     With(transitions_, key,
                          (IF key \in DOMAIN transitions_
                             THEN transitions_[key] ELSE 0) + 1)
                /\ lastOp' = PReturned("SwitchPersona", TRUE,
                                       targetPersonaID, FALSE)
       ELSE /\ UNCHANGED << activePersona_, personas_, history_,
                            cooldowns_, transitions_ >>
            /\ lastOp' = PReturned("SwitchPersona", FALSE, targetPersonaID, FALSE)
  /\ UNCHANGED << now, mmVars, MemoryConnections,
                  traits, TraitCorrelations, ShortTermMemories,
                  LongTermMemories, MemoryWeights, ActiveResonances,
                  EmotionalPatterns, persona_db, crashed >>

\* PersonaSystem::UpdateTrait(traitName, influence, evidence).  Without an
\* active persona line 298 dereferences a null pointer: the process dies, or
\* the read yields garbage and the call returns at line 305.
UpdateTrait(traitName, influence, dbOk) ==
  /\ ~crashed
  /\ personaOps < MaxPersonaOps
  /\ personaOps' = personaOps + 1
  /\ IF activePersona_ = NoPersona
       THEN /\ \E dies \in BOOLEAN :
                 /\ crashed' = dies
                 /\ persona_db' = IF dies \/ ~dbOk THEN persona_db
                                  ELSE persona_db \cup {<< "garbage", traitName >>}
            /\ lastOp' = Returned("UpdateTrait", FALSE, traitName,
                                  [id |-> "none", influence |-> influence,
                                   hops |-> 0],
                                  ~dbOk)
            /\ UNCHANGED traits
       ELSE LET st == UpdateTraitRec(TraitState, traitName, influence, now, 0)
            IN  /\ traits' = st.traits
                /\ crashed' = st.dead
                /\ persona_db' = persona_db \cup SavedTraits(st.saved, dbOk)
                /\ lastOp' = Returned("UpdateTrait", ~st.dead, traitName,
                                      [id |-> "none", influence |-> influence,
                                       hops |-> st.hops],
                                      ~dbOk)
  /\ UNCHANGED << now, mmVars, personas_, history_, transitions_,
                  MemoryConnections,
                  activePersona_, TraitCorrelations,
                  ShortTermMemories, LongTermMemories, MemoryWeights,
                  ActiveResonances, EmotionalPatterns, cooldowns_ >>

\* PersonaSystem::ApplyTraitDecay(): every core and derived trait is
\* multiplied by its decay factor; LastUpdated is left as it is.
Decayed(trs, t) ==
  [n \in DOMAIN trs |->
     [trs[n] EXCEPT !.CurrentValue = Mul(@, DecayFactor(trs[n], t))]]

ApplyTraitDecay ==
  /\ ~crashed
  /\ personaOps < MaxPersonaOps
  /\ personaOps' = personaOps + 1
  /\ traits' = IF activePersona_ = NoPersona THEN traits
               ELSE Decayed(traits, now)
  /\ lastOp' = PReturned("ApplyTraitDecay", activePersona_ # NoPersona,
                         "none", FALSE)
  /\ UNCHANGED << now, mmVars, personas_, history_, transitions_,
                  MemoryConnections,
                  activePersona_, TraitCorrelations,
                  ShortTermMemories, LongTermMemories, MemoryWeights,
                  ActiveResonances, EmotionalPatterns, cooldowns_,
                  persona_db, crashed >>

\* PersonaSystem::AddTraitCorrelation(trait1, trait2, correlation)
AddTraitCorrelation(trait1, trait2, correlation) ==
  /\ ~crashed
  /\ personaOps < MaxPersonaOps
  /\ personaOps' = personaOps + 1
  /\ TraitCorrelations' =
       IF activePersona_ = NoPersona THEN TraitCorrelations
       ELSE With(TraitCorrelations, trait1 \o "_" \o trait2, correlation)
  /\ lastOp' = PReturned("AddTraitCorrelation", activePersona_ # NoPersona,
                         trait1 \o "_" \o trait2, FALSE)
  /\ UNCHANGED << now, mmVars, personas_, history_, transitions_,
                  MemoryConnections,
                  activePersona_, traits, ShortTermMemories,
                  LongTermMemories, MemoryWeights, ActiveResonances,
                  EmotionalPatterns, cooldowns_, persona_db, crashed >>

\* ---------------------------------------------- PersonaSystem: memories
\* PersonaSystem's MemoryEvent.
PersonaMemory(type, content, importance, weight, influences, tags) ==
  [Type |-> type, Content |-> content, Importance |-> importance,
   EmotionalWeight |-> weight, TraitInfluences |-> influences,
   Tags |-> tags, Timestamp |-> 0]

\* The memories a caller may add: an ordinary one, and an important one.
PMemA == PersonaMemory("chat", "trust you", 6000, 6000,
                       [arousal |-> 5000], {"chat"})
PMemB == PersonaMemory("event", "first date", 9000, 8000,
                       [clinginess |-> -5000], {"date"})
PersonaMemoryInputs == {PMemA, PMemB}

\* PersonaSystem::DecayShortTermMemories(): memories older than 24 hours go.
DecayShortTermMemories(stm, t) ==
  SelectSeq(stm, LAMBDA m : ~(Hours(t - m.Timestamp) > 24))

\* The loop of ProcessMemories (lines 746-758).
MovesOut(m, t) == m.Importance > (7 * Scale) \div 10 \/ Hours(t - m.Timestamp) > 24
\* PersonaSystem::MoveToLongTerm(memory)
Significant(m) ==
  m.Importance > (5 * Scale) \div 10 \/ m.EmotionalWeight > (7 * Scale) \div 10

\* PersonaSystem::UpdateMemoryWeights()
UpdateMemoryWeights(weights, stm) ==
  [type \in DOMAIN weights |->
     LET count == Cardinality({i \in DOMAIN stm : stm[i].Type = type})
     IN  (7 * weights[type] + 3 * ((count * Scale) \div 10)) \div 10]

\* PersonaSystem::UpdateTraitFromMemory(memory): the UpdateTrait calls it
\* makes, in the order of the TraitInfluences map.
InfluenceCalls(m) ==
  LET names == SelectSeq(NameOrder, LAMBDA n : n \in DOMAIN m.TraitInfluences)
  IN  [i \in DOMAIN names |->
         [trait |-> names[i], influence |-> m.TraitInfluences[names[i]]]]

\* PersonaSystem::CalculateMemoryInfluence(): short-term memories, then the
\* long-term ones with Importance > 0.7.
MemoryInfluenceCalls(stm, ltm) ==
  Flatten([i \in DOMAIN stm |-> InfluenceCalls(stm[i])])
    \o Flatten([i \in DOMAIN ltm |->
                  IF ltm[i].Importance > (7 * Scale) \div 10
                    THEN InfluenceCalls(ltm[i]) ELSE <<>>])

RECURSIVE ApplyCalls(_, _, _)
ApplyCalls(st, calls, t) ==
  IF calls = <<>> THEN st
  ELSE ApplyCalls(UpdateTraitRec(st, Head(calls).trait, Head(calls).influence,
                                 t, 0),
                  Tail(calls), t)

\* PersonaSystem::ProcessMemories() on the memory context and the traits.
ProcessMemories(stm, ltm, weights, t) ==
  LET kept == DecayShortTermMemories(stm, t)
      stm2 == SelectSeq(kept, LAMBDA m : ~MovesOut(m, t))
      ltm2 == ltm \o SelectSeq(kept, LAMBDA m : MovesOut(m, t) /\ Significant(m))
  IN  [stm |-> stm2, ltm |-> ltm2,
       weights |-> UpdateMemoryWeights(weights, stm2),
       st |-> ApplyCalls(TraitState, MemoryInfluenceCalls(stm2, ltm2), t)]

\* PersonaSystem::AddMemory(memory).  The result of db_.SaveMemory is not
\* looked at.  The note of the call holds the memory and the UpdateTrait
\* calls CalculateMemoryInfluence made.  Without an active persona line 711
\* dereferences a null pointer and line 725 writes through it.
AddMemory(memory, dbOk) ==
  /\ ~crashed
  /\ personaOps < MaxPersonaOps
  /\ Len(ShortTermMemories) + Len(LongTermMemories) < MaxPersonaMemories
  /\ personaOps' = personaOps + 1
  /\ IF activePersona_ = NoPersona
       THEN /\ crashed' = TRUE
            /\ lastOp' = PReturned("AddMemory", FALSE, memory.Content, ~dbOk)
            /\ UNCHANGED << traits, ShortTermMemories, LongTermMemories,
                            MemoryWeights, persona_db >>
       ELSE LET r == ProcessMemories(
                       Append(ShortTermMemories, memory), LongTermMemories,
                       IF memory.Type \in DOMAIN MemoryWeights
                         THEN MemoryWeights
                         ELSE With(MemoryWeights, memory.Type, Scale),
                       now)
            IN  /\ ShortTermMemories' = r.stm
                /\ LongTermMemories' = r.ltm
                /\ MemoryWeights' = r.weights
                /\ traits' = r.st.traits
                /\ crashed' = r.st.dead
                /\ persona_db' =
                     persona_db
                       \cup (IF dbOk THEN {<< "memory", memory.Content >>} ELSE {})
                       \cup SavedTraits(r.st.saved, dbOk)
                /\ lastOp' = Returned("AddMemory", ~r.st.dead,
                                      memory.Content,
                                      [id |-> "none", memory |-> memory,
                                       calls |-> MemoryInfluenceCalls(
                                                   r.stm, r.ltm)],
                                      ~dbOk)
  /\ UNCHANGED << now, mmVars, personas_, history_, transitions_,
                  MemoryConnections,
                  activePersona_, TraitCorrelations,
                  ActiveResonances, EmotionalPatterns, cooldowns_ >>

\* ------------------------------------------- PersonaSystem: associations
\* A memory that shares its trait and its tag with PMemA and lies within 0.2
\* of its emotional weight.
PMemC == PersonaMemory("chat", "warm talk", 5000, 6500,
                       [arousal |-> 4000], {"chat"})

\* Iteration order of a std::map keyed by memory content.
ContentOrder == << "first date", "trust you", "warm talk" >>

\* PersonaSystem::CreateMemoryConnections(), lines 1105-1126: 0.3 for each
\* shared trait, 0.2 for each shared tag, 0.2 for emotional weights within
\* 0.2 of one another.
PairStrength(mem1, mem2) ==
  ((3 * Scale) \div 10)
      * Cardinality(DOMAIN mem1.TraitInfluences
                      \cap DOMAIN mem2.TraitInfluences)
    + ((2 * Scale) \div 10) * Cardinality(mem1.Tags \cap mem2.Tags)
    + (IF Abs(mem1.EmotionalWeight - mem2.EmotionalWeight)
            < (2 * Scale) \div 10
         THEN (2 * Scale) \div 10 ELSE 0)

\* The two loops of CreateMemoryConnections (lines 1099-1139) over
\* allMemories: a connection for each pair i < j stronger than 0.5.
NewConnections(allMemories) ==
  Flatten([i \in DOMAIN allMemories |->
    Flatten([j \in DOMAIN allMemories |->
      IF i < j /\ PairStrength(allMemories[i], allMemories[j]) > Scale \div 2
        THEN << [SourceMemory |-> allMemories[i].Content,
                 TargetMemory |-> allMemories[j].Content,
                 Strength |-> PairStrength(allMemories[i], allMemories[j]),
                 ConnectionType |-> "emotional",
                 SharedTraits |->
                   SelectSeq(NameOrder, LAMBDA n :
                     /\ n \in DOMAIN allMemories[i].TraitInfluences
                     /\ n \in DOMAIN allMemories[j].TraitInfluences)] >>
        ELSE <<>>])])

\* PersonaSystem::CreateMemoryConnections(): the new connections are pushed
\* behind the ones already there.
CreateMemoryConnections ==
  /\ ~crashed
  /\ Len(MemoryConnections) < MaxConnections
  /\ MemoryConnections' =
       IF activePersona_ = NoPersona THEN MemoryConnections
       ELSE MemoryConnections
              \o NewConnections(ShortTermMemories \o LongTermMemories)
  /\ lastOp' = PReturned("CreateMemoryConnections",
                         activePersona_ # NoPersona, "none", FALSE)
  /\ UNCHANGED << now, mmVars, personas_, history_, transitions_,
                  activePersona_, traits, TraitCorrelations,
                  ShortTermMemories, LongTermMemories, MemoryWeights,
                  ActiveResonances, EmotionalPatterns, cooldowns_,
                  persona_db, crashed, personaOps >>

\* Memory.LastMemoryUpdate is assigned nowhere: it stays the epoch of the
\* clock, decades before any call.
LastMemoryUpdate == -100000

\* The first loop of PersonaSystem::UpdateMemoryAssociations (lines
\* 1412-1437) on one connection.
Reassessed(connection, stm, t) ==
  LET sourceAccessed ==
        \E i \in DOMAIN stm : stm[i].Content = connection.SourceMemory
      targetAccessed ==
        \E i \in DOMAIN stm : stm[i].Content = connection.TargetMemory
      strengthened ==
        IF sourceAccessed /\ targetAccessed
          THEN Min(Scale, connection.Strength + Scale \div 10)
          ELSE connection.Strength
  IN  [connection EXCEPT !.Strength =
         IF Hours(t - LastMemoryUpdate) > 24
           THEN Max(Scale \div 10, strengthened - Scale \div 100)
           ELSE strengthened]

\* The second loop (lines 1439-1479): a connection of strength 0.3 for each
\* ordered pair of different contents that each occur more than twice in
\* the short-term memories and have no connection yet.
FrequentAccess(connections, stm) ==
  LET count(c) == Cardinality({i \in DOMAIN stm : stm[i].Content = c})
      connected(c1, c2) ==
        \E i \in DOMAIN connections :
          \/ /\ connections[i].SourceMemory = c1
             /\ connections[i].TargetMemory = c2
          \/ /\ connections[i].SourceMemory = c2
             /\ connections[i].TargetMemory = c1
  IN  Flatten([a \in DOMAIN ContentOrder |->
        Flatten([b \in DOMAIN ContentOrder |->
          IF /\ a < b
             /\ count(ContentOrder[a]) > 2
             /\ count(ContentOrder[b]) > 2
             /\ ~connected(ContentOrder[a], ContentOrder[b])
            THEN << [SourceMemory |-> ContentOrder[a],
                     TargetMemory |-> ContentOrder[b],
                     Strength |-> (3 * Scale) \div 10,
                     ConnectionType |-> "frequent_access",
                     SharedTraits |->
                       Flatten([i \in DOMAIN stm |->
                         IF stm[i].Content
                              \in {ContentOrder[a], ContentOrder[b]}
                           THEN SelectSeq(NameOrder, LAMBDA n :
                                  n \in DOMAIN stm[i].TraitInfluences)
                           ELSE <<>>])] >>
            ELSE <<>>])])

\* PersonaSystem::UpdateMemoryAssociations()
PersonaUpdateMemoryAssociations ==
  /\ ~crashed
  /\ MemoryConnections' =
       IF activePersona_ = NoPersona THEN MemoryConnections
       ELSE LET connections ==
                  [i \in DOMAIN MemoryConnections |->
                     Reassessed(MemoryConnections[i], ShortTermMemories, now)]
            IN  connections \o FrequentAccess(connections, ShortTermMemories)
  /\ lastOp' = PReturned("PersonaSystem::UpdateMemoryAssociations",
                         activePersona_ # NoPersona, "none", FALSE)
  /\ UNCHANGED << now, mmVars, personas_, history_, transitions_,
                  activePersona_, traits, TraitCorrelations,
                  ShortTermMemories, LongTermMemories, MemoryWeights,
                  ActiveResonances, EmotionalPatterns, cooldowns_,
                  persona_db, crashed, personaOps >>

\* -------------------------------------------- PersonaSystem: resonances
\* The comparator of RecallRelevantMemories' sort:
\* a.Importance / (1 + hoursA) > b.Importance / (1 + hoursB).
Outranks(a, b, t) ==
  a.Importance * (1 + Hours(t - b.Timestamp))
    > b.Importance * (1 + Hours(t - a.Timestamp))

RECURSIVE InsertRanked(_, _, _)
InsertRanked(sorted, m, t) ==
  IF sorted = <<>> THEN << m >>
  ELSE IF Outranks(m, Head(sorted), t) THEN << m >> \o sorted
  ELSE << Head(sorted) >> \o InsertRanked(Tail(sorted), m, t)

RECURSIVE SortRanked(_, _)
SortRanked(s, t) ==
  IF s = <<>> THEN <<>>
  ELSE InsertRanked(SortRanked(SubSeq(s, 1, Len(s) - 1), t), s[Len(s)], t)

\* PersonaSystem::RecallRelevantMemories(context)
RecallRelevantMemories(context, stm, ltm, t) ==
  SortRanked(SelectSeq(stm \o ltm,
                       LAMBDA m : \E tag \in m.Tags : Find(context, tag)), t)

\* The resonance ProcessEmotionalResonance creates.
NewResonance(trigger, intensity, stm, ltm, t) ==
  LET relevant == SelectSeq(RecallRelevantMemories(trigger, stm, ltm, t),
                            LAMBDA m : m.EmotionalWeight > (5 * Scale) \div 10)
  IN  [Intensity |-> intensity, Trigger |-> trigger, StartTime |-> t,
       PeakTime |-> t + 60,
       AssociatedMemories |-> [i \in DOMAIN relevant |-> relevant[i].Content]]

\* Lines 1045-1050: intensity *= exp(-0.1 * hours since StartTime).
DecayedResonance(r, t) ==
  [r EXCEPT !.Intensity = Mul(@, ExpNeg(100000 * Hours(t - r.StartTime)))]

\* A faulty threshold: 0.01 where the code has 0.1.
ExpiredBelowHundredth(r) == r.Intensity < Scale \div 100

\* Line 1053 and the predicate of the remove_if at line 1082.
Expired(r) == r.Intensity < Scale \div 10
\* Line 1055.
SignificantResonance(r) == r.Intensity > (5 * Scale) \div 10

\* Lines 1056-1073: the pattern a resonance leaves behind.
PatternMemories(r, stm) ==
  LET found == SelectSeq(r.AssociatedMemories,
                         LAMBDA c : \E i \in DOMAIN stm : stm[i].Content = c)
  IN  [k \in DOMAIN found |->
         stm[CHOOSE i \in DOMAIN stm :
               /\ stm[i].Content = found[k]
               /\ \A j \in 1..(i - 1) : stm[j].Content # found[k]]]

PatternOf(r, stm, t) ==
  [PatternType |-> r.Trigger, BaseIntensity |-> r.Intensity,
   CurrentIntensity |-> r.Intensity, LastTriggered |-> t,
   PatternMemories |-> PatternMemories(r, stm)]

\* The loop of UpdateEmotionalPatterns over the resonances, then the removal.
EmittedPatterns(decayed, stm, t) ==
  LET hit == SelectSeq(decayed,
                       LAMBDA r : Expired(r) /\ SignificantResonance(r))
  IN  [i \in DOMAIN hit |-> PatternOf(hit[i], stm, t)]

UpdatedPatterns(rs, patterns, stm, t) ==
  LET decayed == [i \in DOMAIN rs |-> DecayedResonance(rs[i], t)]
  IN  [resonances |-> SelectSeq(decayed, LAMBDA r : ~Expired(r)),
       patterns |-> patterns \o EmittedPatterns(decayed, stm, t)]

\* The resonances of rs, as they are before the tick, that the tick removes.
Removed(rs, t) ==
  SelectSeq(rs, LAMBDA r : Expired(DecayedResonance(r, t)))

\* PersonaSystem::UpdateEmotionalPatterns()
UpdateEmotionalPatterns ==
  /\ ~crashed
  /\ personaOps < MaxPersonaOps
  /\ personaOps' = personaOps + 1
  /\ LET u == UpdatedPatterns(ActiveResonances, EmotionalPatterns,
                              ShortTermMemories, now)
     IN  IF activePersona_ = NoPersona
           THEN UNCHANGED << ActiveResonances, EmotionalPatterns >>
           ELSE /\ ActiveResonances' = u.resonances
                /\ EmotionalPatterns' = u.patterns
  /\ lastOp' = Returned("UpdateEmotionalPatterns", activePersona_ # NoPersona,
                        "none",
                        [id |-> "none",
                         removed |-> IF activePersona_ = NoPersona THEN <<>>
                                     ELSE Removed(ActiveResonances, now)],
                        FALSE)
  /\ UNCHANGED << now, mmVars, personas_, history_, transitions_,
                  MemoryConnections,
                  activePersona_, traits, TraitCorrelations,
                  ShortTermMemories, LongTermMemories, MemoryWeights,
                  cooldowns_, persona_db, crashed >>

\* PersonaSystem::ProcessEmotionalResonance(interaction): interaction->Type
\* is the trigger, Data["emotional_content"] the intensity.
ProcessEmotionalResonance(trigger, intensity) ==
  /\ ~crashed
  /\ personaOps < MaxPersonaOps
  /\ personaOps' = personaOps + 1
  /\ Len(ActiveResonances) < MaxResonances
  /\ LET pushed == Append(ActiveResonances,
                          NewResonance(trigger, intensity, ShortTermMemories,
                                       LongTermMemories, now))
         u == UpdatedPatterns(pushed, EmotionalPatterns, ShortTermMemories, now)
     IN  IF activePersona_ = NoPersona
           THEN UNCHANGED << ActiveResonances, EmotionalPatterns >>
           ELSE /\ ActiveResonances' = u.resonances
                /\ EmotionalPatterns' = u.patterns
  /\ lastOp' = Returned("ProcessEmotionalResonance",
                        activePersona_ # NoPersona, trigger,
                        [id |-> "none",
                         removed |->
                           IF activePersona_ = NoPersona THEN <<>>
                           ELSE Removed(
                                  Append(ActiveResonances,
                                         NewResonance(trigger, intensity,
                                                      ShortTermMemories,
                                                      LongTermMemories, now)),
                                  now)],
                        FALSE)
  /\ UNCHANGED << now, mmVars, personas_, history_, transitions_,
                  MemoryConnections,
                  activePersona_, traits, TraitCorrelations,
                  ShortTermMemories, LongTermMemories, MemoryWeights,
                  cooldowns_, persona_db, crashed >>

\* ========================================================= specifications
\* The state after MemoryManager's and PersonaSystem's constructors: nothing
\* stored, the manager not initialized, the default persona registered and
\* no persona active.
Init ==
  /\ now = 0
  /\ lastOp = [op |-> "none", again |-> FALSE, ok |-> TRUE, id |-> "none",
               out |-> NoMemory, dbFailed |-> FALSE]
  /\ is_initialized_ = FALSE
  /\ memories_ = EmptyMap
  /\ db_memories = EmptyMap
  /\ memory_index = EmptyMap
  /\ clusters = <<>>
  /\ memory_connections = <<>>
  /\ contexts = NoContexts
  /\ memory_cache_ = EmptyMap
  /\ memory_index_ = EmptyMap
  /\ trait_baselines_ = EmptyMap
  /\ traitEvolutionMetrics_ = EmptyMap
  /\ admitted = EmptyMap
  /\ activePersona_ = NoPersona
  /\ personas_ = [p \in Personas |-> [Active |-> FALSE, LastUsed |-> -100000]]
  /\ history_ = <<>>
  /\ transitions_ = EmptyMap
  /\ traits = DefaultTraits
  /\ TraitCorrelations = DefaultCorrelations
  /\ ShortTermMemories = <<>>
  /\ LongTermMemories = <<>>
  /\ MemoryWeights = EmptyMap
  /\ ActiveResonances = <<>>
  /\ EmotionalPatterns = <<>>
  /\ MemoryConnections = <<>>
  /\ cooldowns_ = EmptyMap
  /\ persona_db = {}
  /\ crashed = FALSE
  /\ personaOps = 0

\* Inputs the callers use.
BaselineInputs == {6000000}
BaselineNames == {"trust", "calm"}
TraitInputs == {"arousal", "sapphic_identity"}
InfluenceInputs == {20000, -20000}
CorrelationInputs == {<< "arousal", "flirtiness" >>, << "clinginess", "flirtiness" >>}
ResonanceInputs == {9000, 6000, 500}
TriggerInputs == {"chat"}
StoreSteps == {600}
TraitSteps == {45}
ResonanceSteps == {600, 1800}

\* --- the trait ledgers of both components
NextLedger ==
  \/ \E dbOk \in BOOLEAN : Initialize(dbOk)
  \/ SaveMemory(MemC, TRUE)
  \/ \E n \in BaselineNames, x \in BaselineInputs : UpdateTraitBaseline(n, x)
  \/ UpdateTraitBaselines
  \/ \E p \in Personas : SwitchPersona(p)
  \/ \E x \in InfluenceInputs : UpdateTrait("sapphic_identity", x, TRUE)
SpecLedger == Init /\ [][NextLedger]_vars

\* --- admission and update under persistence failures
NextPersist ==
  \/ \E dbOk \in BOOLEAN : Initialize(dbOk)
  \/ \E memory \in {MemA, MemB}, dbOk \in BOOLEAN : SaveMemory(memory, dbOk)
  \/ \E memory \in {MemA2}, dbOk \in BOOLEAN : UpdateMemory(memory, dbOk)
  \/ \E p \in Personas : SwitchPersona(p)
  \/ \E m \in PersonaMemoryInputs, dbOk \in BOOLEAN :
       AddMemory([m EXCEPT !.Timestamp = now], dbOk)
SpecPersist == Init /\ [][NextPersist]_vars

\* --- the memory store and its indexes
NextStore ==
  \/ \E dbOk \in BOOLEAN : Initialize(dbOk)
  \/ Restart
  \/ \E memory \in {MemA, MemC}, dbOk \in BOOLEAN : SaveMemory(memory, dbOk)
  \/ \E id \in {"m1", "m3"}, dbOk \in BOOLEAN : LoadMemory(id, dbOk)
  \/ \E memory \in {MemA2}, dbOk \in BOOLEAN : UpdateMemory(memory, dbOk)
  \/ \E id \in {"m1", "m3"}, dbOk \in BOOLEAN : DeleteMemory(id, dbOk)
  \/ PruneMemoriesBasedOnTraits
  \/ UpdateMemoryIndex
  \/ \E dt \in StoreSteps : Advance(dt, MaxStoreTime)
SpecStore == Init /\ [][NextStore]_vars

\* --- the recency cache
NextCache ==
  \/ Initialize(TRUE)
  \/ \E memory \in {MemA, MemB, MemC} : SaveMemory(memory, TRUE)
  \/ \E id \in MemIds : CacheAccess(id)
  \/ UpdateCache
  \/ \E dt \in StoreSteps : Advance(dt, MaxTime)
SpecCache == Init /\ [][NextCache]_vars

\* --- resonances and the periodic sweeps
NextResonance ==
  \/ \E p \in Personas : SwitchPersona(p)
  \/ \E m \in PersonaMemoryInputs :
       AddMemory([m EXCEPT !.Timestamp = now], TRUE)
  \/ \E t \in TriggerInputs, x \in ResonanceInputs :
       ProcessEmotionalResonance(t, x)
  \/ UpdateEmotionalPatterns
  \/ ApplyTraitDecay
  \/ \E dt \in ResonanceSteps : Advance(dt, MaxTime)
SpecResonance == Init /\ [][NextResonance]_vars

\* --- trait evolution
NextTrait ==
  \/ \E p \in Personas : SwitchPersona(p)
  \/ \E n \in TraitInputs, x \in InfluenceInputs \cup {0} :
       UpdateTrait(n, x, TRUE)
  \/ ApplyTraitDecay
  \/ \E c \in CorrelationInputs : AddTraitCorrelation(c[1], c[2], 5000)
  \/ \E dt \in TraitSteps : Advance(dt, MaxTraitTime)
SpecTrait == Init /\ [][NextTrait]_vars

\* --- the association pass of MemoryManager
NextAssoc ==
  \/ Initialize(TRUE)
  \/ \E memory \in {MemA, MemB, MemC, MemD} : SaveMemory(memory, TRUE)
  \/ \E id \in MemIds : DeleteMemory(id, TRUE)
  \/ UpdateMemoryAssociations
  \/ UpdateMemoryWeightsWithEmotion(TRUE)
SpecAssoc == Init /\ [][NextAssoc]_vars

\* --- associations of memories that share more than one tag
NextStrength ==
  \/ Initialize(TRUE)
  \/ \E memory \in {MemF("m1"), MemF("m2"), MemC} : SaveMemory(memory, TRUE)
  \/ \E id \in MemIds : DeleteMemory(id, TRUE)
  \/ UpdateMemoryAssociations
SpecStrength == Init /\ [][NextStrength]_vars

\* --- saving the whole store in one transaction
NextTransaction ==
  \/ \E dbOk \in BOOLEAN : Initialize(dbOk)
  \/ \E memory \in {MemA, MemC} : SaveMemory(memory, TRUE)
  \/ \E id \in {"m1"} : DeleteMemory(id, TRUE)
  \/ \E beginOk, commitOk \in BOOLEAN, failAt \in 0..2 :
       SaveToDatabase(beginOk, failAt, commitOk)
SpecTransaction == Init /\ [][NextTransaction]_vars

\* --- switching personas, known and unknown, minutes apart
NextSwitch ==
  \/ \E p \in Personas \cup {"stranger"} : SwitchPersona(p)
  \/ \E dt \in {2, 3} : Advance(dt, MaxSwitchTime)
SpecSwitch == Init /\ [][NextSwitch]_vars

\* --- the connections of a persona's memories
NextPersonaAssoc ==
  \/ \E p \in Personas : SwitchPersona(p)
  \/ \E m \in {PMemA, PMemC} : AddMemory([m EXCEPT !.Timestamp = now], TRUE)
  \/ CreateMemoryConnections
  \/ PersonaUpdateMemoryAssociations
  \/ \E dt \in ResonanceSteps : Advance(dt, MaxTime)
SpecPersonaAssoc == Init /\ [][NextPersonaAssoc]_vars

\* --- influences on traits seen and unseen
NextInfluence ==
  \/ Initialize(TRUE)
  \/ \E n \in BaselineNames, x \in BaselineInputs : UpdateTraitBaseline(n, x)
  \/ \E p \in Personas : SwitchPersona(p)
  \/ \E n \in {"arousal", "trust"}, x \in InfluenceInputs :
       UpdateTrait(n, x, TRUE)
SpecInfluence == Init /\ [][NextInfluence]_vars

\* --- a host serving two sessions
NextSessions ==
  \/ Initialize(TRUE)
  \/ \E s \in Sessions, memory \in {MemA, MemC} : Admit(s, memory, TRUE)
  \/ \E s \in Sessions : UpdateMemoryIndexFor(s, MemC)
  \/ \E s \in Sessions : UpdateMemoryClusterFor(s, MemC)
SpecSessions == Init /\ [][NextSessions]_vars

\* --- the keyword and tag index
NextIndex ==
  \/ Initialize(TRUE)
  \/ \E memory \in {MemA, MemC, MemE} : SaveMemory(memory, TRUE)
  \/ \E id \in MemIds : DeleteMemory(id, TRUE)
  \/ UpdateMemoryIndex
SpecIndex == Init /\ [][NextIndex]_vars

\* --- samples of two traits, each one step above the trait's last sample
SampleStep == MemScale \div 100
NextSample(traitName) ==
  LET h == MetricsOf(traitEvolutionMetrics_, traitName).HistoricalValues
  IN  (IF h = <<>> THEN 0 ELSE h[Len(h)]) + SampleStep
NextHistory ==
  \E n \in BaselineNames :
    /\ NextSample(n) <= MaxSamples * SampleStep
    /\ UpdateEvolutionMetrics(n, NextSample(n))
SpecHistory == Init /\ [][NextHistory]_vars

\* --- everything
Next ==
  \/ NextLedger
  \/ NextPersist
  \/ NextStore
  \/ NextCache
  \/ NextResonance
  \/ NextTrait
  \/ NextAssoc
  \/ NextPersonaAssoc
  \/ NextInfluence
  \/ NextSessions
  \/ NextIndex
  \/ NextHistory
  \/ NextStrength
  \/ NextTransaction
  \/ NextSwitch
Spec == Init /\ [][Next]_vars

\* ============================================================== properties
\* C1: after any sequence of influences (UpdateTrait with its propagated
\* influences, UpdateTraitBaseline, UpdateTraitBaselines) every trait's
\* current value lies in [0,1], in PersonaSystem's ledger and in
\* MemoryManager's.
C1_TraitValuesInUnitInterval ==
  /\ \A n \in DOMAIN traits :
       traits[n].CurrentValue >= 0 /\ traits[n].CurrentValue <= Scale
  /\ \A n \in DOMAIN trait_baselines_ :
       trait_baselines_[n] >= 0 /\ trait_baselines_[n] <= MemScale

\* C2: when the persistence call inside SaveMemory, UpdateMemory or AddMemory
\* fails, SaveMemory and UpdateMemory return failure and no in-memory
\* collection (memory map, indexes, clusters, cache, the persona's memory
\* context) differs from what it was before the call.
C2_FailedPersistenceLeavesMemoryUntouched ==
  [][(lastOp'.op \in {"SaveMemory", "UpdateMemory", "AddMemory"}
        /\ lastOp'.dbFailed)
       => /\ lastOp'.op \in {"SaveMemory", "UpdateMemory"} => ~lastOp'.ok
          /\ UNCHANGED << memories_, memory_index, clusters, memory_index_,
                          memory_cache_, ShortTermMemories, LongTermMemories,
                          MemoryWeights >>]_vars

C4_UpdateCacheIdempotent ==
  [][(lastOp'.op = "UpdateCache" /\ lastOp'.again)
       => UNCHANGED << memory_cache_, memories_, memory_index,
                       memory_index_ >>]_vars

\* The second of two UpdateCache calls in a row has returned, with a full
\* cache and more memories stored than the cache may hold.
C4_Witness ==
  /\ lastOp.op = "UpdateCache"
  /\ lastOp.again
  /\ lastOp.ok
  /\ Cardinality(DOMAIN memory_cache_) = MaxCacheSize
  /\ Cardinality(DOMAIN memories_) > MaxCacheSize

\* Where an id can be held.
InStorage(id) == id \in DOMAIN memories_ \/ id \in DOMAIN db_memories
InCache(id) == id \in DOMAIN memory_cache_
InIndex(id) ==
  \/ id \in DOMAIN memory_index
  \/ \E k \in DOMAIN memory_index_ :
       \E i \in DOMAIN memory_index_[k] : memory_index_[k][i] = id

\* C5: removal is all-or-nothing.  A successful DeleteMemory(id) leaves the
\* id in none of storage, cache and index; a failed one changes none of them;
\* and no removing call (DeleteMemory, or the removal loop of
\* PruneMemoriesBasedOnTraits) returns with an id gone from one of them and
\* still held by another.
C5_RemovalIsAllOrNothing ==
  [][(lastOp'.op \in {"DeleteMemory", "PruneMemoriesBasedOnTraits"})
       => /\ \A id \in MemIds :
               (lastOp'.op = "DeleteMemory" /\ lastOp'.ok /\ lastOp'.id = id)
                 => ~(InStorage(id) \/ InCache(id) \/ InIndex(id))'
          /\ (lastOp'.op = "DeleteMemory" /\ ~lastOp'.ok)
               => UNCHANGED << memories_, db_memories, memory_cache_,
                               memory_index, memory_index_ >>
          /\ \A id \in MemIds :
               (\/ InStorage(id) /\ ~InStorage(id)'
                \/ InCache(id) /\ ~InCache(id)'
                \/ InIndex(id) /\ ~InIndex(id)')
                 => ~(InStorage(id) \/ InCache(id) \/ InIndex(id))']_vars

\* The fields a round trip has to preserve (timestamps excepted).
SameMemory(a, b) ==
  /\ a.id = b.id
  /\ a.content = b.content
  /\ a.context = b.context
  /\ a.importance = b.importance
  /\ a.emotional_weight = b.emotional_weight
  /\ a.trait_influences = b.trait_influences
  /\ a.tags = b.tags

\* C6: a LoadMemory that succeeds for an admitted id hands back the memory
\* as it was admitted (timestamps excepted), whether it comes from the
\* memory map or from the database.
C6_AdmitThenGetRoundTrips ==
  (lastOp.op = "LoadMemory" /\ lastOp.ok /\ lastOp.id \in DOMAIN admitted)
    => SameMemory(lastOp.out, admitted[lastOp.id])

\* C7: after every UpdateEmotionalPatterns and every
\* ProcessEmotionalResonance no active resonance has an intensity below 0.1,
\* and a resonance still at 0.9 when it is ticked 30 hours after its start is
\* gone after that tick.
C7_NoFaintResonanceRemains ==
  [][(lastOp'.op \in {"UpdateEmotionalPatterns", "ProcessEmotionalResonance"}
        /\ lastOp'.ok)
       => /\ \A j \in DOMAIN ActiveResonances' :
               ActiveResonances'[j].Intensity >= Scale \div 10
          /\ lastOp'.op = "UpdateEmotionalPatterns"
               => \A i \in DOMAIN ActiveResonances :
                    (/\ ActiveResonances[i].Intensity = (9 * Scale) \div 10
                     /\ Hours(now - ActiveResonances[i].StartTime) = 30)
                      => ~\E j \in DOMAIN ActiveResonances' :
                            /\ ActiveResonances'[j].StartTime
                                 = ActiveResonances[i].StartTime
                            /\ ActiveResonances'[j].Trigger
                                 = ActiveResonances[i].Trigger]_vars

\* A tick has just removed a resonance that stood at 0.9, 30 hours after its
\* start.
C7_Witness ==
  /\ lastOp.op = "UpdateEmotionalPatterns"
  /\ lastOp.ok
  /\ \E i \in DOMAIN lastOp.out.removed :
       /\ lastOp.out.removed[i].Intensity = (9 * Scale) \div 10
       /\ Hours(now - lastOp.out.removed[i].StartTime) = 30
  /\ \A j \in DOMAIN ActiveResonances :
       ActiveResonances[j].Intensity >= Scale \div 10

\* C8: a tick emits exactly one EmotionalPattern, of the resonance's trigger
\* type, for every resonance that falls below 0.1 on that tick after having
\* last measured above 0.5, and none for a resonance that expires from 0.5
\* or less.
C8_SignificantExpiryEmitsOnePattern ==
  [][(lastOp'.op = "UpdateEmotionalPatterns" /\ lastOp'.ok)
       => LET expiring ==
                {i \in DOMAIN ActiveResonances :
                   DecayedResonance(ActiveResonances[i], now).Intensity
                     < Scale \div 10}
              significant ==
                {i \in expiring :
                   ActiveResonances[i].Intensity > (5 * Scale) \div 10}
          IN  /\ Len(EmotionalPatterns')
                   = Len(EmotionalPatterns) + Cardinality(significant)
              /\ \A i \in significant :
                   \E k \in (Len(EmotionalPatterns) + 1)..Len(EmotionalPatterns') :
                      EmotionalPatterns'[k].PatternType
                        = ActiveResonances[i].Trigger]_vars

\* C9: a sweep (UpdateEmotionalPatterns, ApplyTraitDecay) run a second time
\* right after the first, at the same instant, leaves resonance intensities
\* and trait values as the first run left them.
C9_SweepTwiceAtAnInstantIsSweepOnce ==
  [][(lastOp'.op \in {"UpdateEmotionalPatterns", "ApplyTraitDecay"}
        /\ lastOp'.again)
       => UNCHANGED << ActiveResonances, traits >>]_vars

\* A decay observation: ApplyTraitDecay, or UpdateTrait with influence 0.
DecayObservation ==
  /\ lastOp.ok
  /\ \/ lastOp.op = "ApplyTraitDecay"
     \/ lastOp.op = "UpdateTrait" /\ lastOp.out.influence = 0

C11_PropagationIsSingleHop ==
  (lastOp.op = "UpdateTrait" /\ activePersona_ # NoPersona)
    => lastOp.ok /\ lastOp.out.hops <= 1

\* C12: UpdateMemoryAssociations run twice in a row gives the connection set
\* of running it once, pairs and strengths alike, in MemoryManager and in
\* PersonaSystem.
C12_AssociationsTwiceIsOnce ==
  [][(/\ lastOp'.again
      /\ lastOp'.op \in {"UpdateMemoryAssociations",
                         "PersonaSystem::UpdateMemoryAssociations"})
       => /\ {memory_connections'[i] : i \in DOMAIN memory_connections'}
               = {memory_connections[i] : i \in DOMAIN memory_connections}
          /\ {MemoryConnections'[i] : i \in DOMAIN MemoryConnections'}
               = {MemoryConnections[i] : i \in DOMAIN MemoryConnections}]_vars

\* C13: after the association pass any two stored memories that share one
\* trait and one tag and whose emotional weights differ by less than 0.2 are
\* joined by a connection of strength at least 0.7.
C13_SharedTraitAndTagConnect ==
  /\ (lastOp.op = "UpdateMemoryAssociations" /\ lastOp.ok)
       => \A a, b \in DOMAIN memories_ :
            (/\ a # b
             /\ Cardinality(DOMAIN memories_[a].trait_influences
                              \cap DOMAIN memories_[b].trait_influences) = 1
             /\ Cardinality(memories_[a].tags \cap memories_[b].tags) = 1
             /\ Abs(memories_[a].emotional_weight
                      - memories_[b].emotional_weight) < (2 * MemScale) \div 10)
              => \E i \in DOMAIN memory_connections :
                   /\ {memory_connections[i].SourceMemory,
                       memory_connections[i].TargetMemory} = {a, b}
                   /\ memory_connections[i].Strength >= (7 * MemScale) \div 10
  /\ (lastOp.op = "CreateMemoryConnections" /\ lastOp.ok)
       => LET all == ShortTermMemories \o LongTermMemories
          IN  \A a, b \in DOMAIN all :
                (/\ a # b
                 /\ Cardinality(DOMAIN all[a].TraitInfluences
                                  \cap DOMAIN all[b].TraitInfluences) = 1
                 /\ Cardinality(all[a].Tags \cap all[b].Tags) = 1
                 /\ Abs(all[a].EmotionalWeight - all[b].EmotionalWeight)
                      < (2 * Scale) \div 10)
                  => \E i \in DOMAIN MemoryConnections :
                       /\ {MemoryConnections[i].SourceMemory,
                           MemoryConnections[i].TargetMemory}
                            = {all[a].Content, all[b].Content}
                       /\ MemoryConnections[i].Strength >= (7 * Scale) \div 10

C14_AdmissionBandsByFirstMember ==
  [][(lastOp'.op = "SaveMemory" /\ lastOp'.ok)
       => LET m == memories_'[lastOp'.id]
              near == {i \in DOMAIN clusters :
                         /\ clusters[i] # <<>>
                         /\ Abs(clusters[i][1].emotional_weight
                                  - m.emotional_weight) < MemScale \div 10}
          IN  IF near = {}
                THEN clusters' = Append(clusters, << m >>)
                ELSE \E i \in near :
                       /\ \A j \in near : i <= j
                       /\ clusters' = [clusters EXCEPT ![i] = Append(@, m)]]_vars
\* The memory of weight 0.65 was admitted into the cluster opened by the
\* memory of weight 0.6, behind a cluster it does not match.
C14_Witness ==
  /\ lastOp.op = "SaveMemory"
  /\ lastOp.ok
  /\ lastOp.id = "m2"
  /\ Len(clusters) = 2
  /\ clusters[2] = << MemA, MemB >>

\* C16: SaveMemory, UpdateMemory and PersonaSystem::AddMemory remove no
\* memory: every memory stored before the call is stored after it.
C16_AdmitAndUpdateRemoveNothing ==
  [][(lastOp'.op \in {"SaveMemory", "UpdateMemory", "AddMemory"})
       => /\ DOMAIN memories_ \subseteq DOMAIN memories_'
          /\ LET before == ShortTermMemories \o LongTermMemories
                 after == ShortTermMemories' \o LongTermMemories'
             IN  {before[i] : i \in DOMAIN before}
                   \subseteq {after[i] : i \in DOMAIN after}]_vars

\* C17: every stored memory has importance in [0,1] and emotional weight in
\* [-1,1], whatever operations have rewritten it.
C17_StoredMemoriesStayInRange ==
  /\ \A id \in DOMAIN memories_ :
       /\ memories_[id].importance >= 0
       /\ memories_[id].importance <= MemScale
       /\ memories_[id].emotional_weight >= -MemScale
       /\ memories_[id].emotional_weight <= MemScale
  /\ LET all == ShortTermMemories \o LongTermMemories
     IN  \A i \in DOMAIN all :
           /\ all[i].Importance >= 0
           /\ all[i].Importance <= Scale
           /\ all[i].EmotionalWeight >= -Scale
           /\ all[i].EmotionalWeight <= Scale

\* C18: UpdateMemory for an id that was never admitted, or was removed,
\* returns failure and leaves memories_, the index and the clusters as they
\* were, and LoadMemory of such an id returns nothing.
C18_UpdateOfUnknownIdFails ==
  [][(lastOp'.id \notin DOMAIN admitted)
       => /\ (lastOp'.op = "UpdateMemory")
               => /\ ~lastOp'.ok
                  /\ UNCHANGED << memories_, memory_index, clusters >>
          /\ (lastOp'.op = "LoadMemory") => ~lastOp'.ok]_vars

\* C19: an influence on a trait name not seen before leaves the trait in
\* existence, holding the influence: UpdateTrait with an active persona
\* creates the trait, UpdateTraitBaseline creates the baseline.
C19_UnseenTraitIsCreated ==
  [][/\ (/\ lastOp'.op = "UpdateTrait"
         /\ activePersona_ # NoPersona
         /\ lastOp'.id \notin DOMAIN traits)
          => lastOp'.id \in DOMAIN traits'
     /\ (/\ lastOp'.op = "UpdateTraitBaseline"
         /\ lastOp'.ok
         /\ lastOp'.id \notin DOMAIN trait_baselines_)
          => /\ lastOp'.id \in DOMAIN trait_baselines_'
             /\ trait_baselines_'[lastOp'.id] # 0]_vars

\* The index and clusters (and, for "default", the connections) of a session.
SessionState(s) ==
  IF s = "default" THEN << memory_index, clusters, memory_connections >>
  ELSE << contexts[s].memory_index, contexts[s].clusters >>
\* The step is an operation made for session s: an admission, an update of
\* its index or of its clusters.
InvokedFor(s) ==
  \/ \E memory \in MemoryInputs : Admit(s, memory, TRUE)
  \/ \E memory \in MemoryInputs : UpdateMemoryIndexFor(s, memory)
  \/ \E memory \in MemoryInputs : UpdateMemoryClusterFor(s, memory)

\* C20: an operation made for one session leaves the index and the clusters
\* of every other session as they were.
C20_SessionsAreIndependent ==
  [][\A a \in Sessions :
       InvokedFor(a)
         => \A b \in Sessions \ {a} : SessionState(b)' = SessionState(b)]_vars

\* The keys under which a memory is to be found: its tags and its content
\* words longer than 3 characters.
KeysOf(m) ==
  m.tags \cup {m.content[i] : i \in {j \in DOMAIN m.content :
                                       Len(m.content[j]) > 3}}

\* C21: after UpdateMemoryIndex() the entry of every key lists exactly the
\* ids of the stored memories that have the key as a tag or as a content
\* word longer than 3 characters, each id once, and every stored memory is
\* found under each of its keys.
C21_IndexListsEachHolderOnce ==
  (lastOp.op = "UpdateMemoryIndex" /\ lastOp.ok)
    => /\ \A k \in DOMAIN memory_index_ :
            /\ {memory_index_[k][i] : i \in DOMAIN memory_index_[k]}
                 = {id \in DOMAIN memories_ : k \in KeysOf(memories_[id])}
            /\ \A i, j \in DOMAIN memory_index_[k] :
                 memory_index_[k][i] = memory_index_[k][j] => i = j
       /\ \A id \in DOMAIN memories_ :
            \A k \in KeysOf(memories_[id]) :
              /\ k \in DOMAIN memory_index_
              /\ \E i \in DOMAIN memory_index_[k] : memory_index_[k][i] = id

\* C22: an operation called on a MemoryManager that is not initialized
\* returns failure without throwing and leaves the in-memory state and the
\* stored rows as they were.
C22_UninitializedCallsFailQuietly ==
  [][(/\ ~is_initialized_
      /\ lastOp'.op \in {"SaveMemory", "LoadMemory", "UpdateMemory",
                         "DeleteMemory", "UpdateTraitBaseline",
                         "UpdateTraitBaselines", "UpdateMemoryIndex",
                         "UpdateCache", "UpdateMemoryAssociations",
                         "UpdateMemoryWeightsWithEmotion"})
       => /\ ~lastOp'.ok
          /\ "threw" \in DOMAIN lastOp'.out => ~lastOp'.out.threw
          /\ UNCHANGED << memories_, db_memories, memory_index, clusters,
                          memory_connections, contexts, memory_cache_,
                          memory_index_, trait_baselines_ >>]_vars

\* C23: an admission applies the influences of the admitted memory, one
\* UpdateTrait call for each trait it influences, and none on behalf of a
\* memory admitted earlier.
C23_AdmissionAppliesOwnInfluencesOnce ==
  (lastOp.op = "AddMemory" /\ lastOp.ok)
    => LET calls == lastOp.out.calls
           own == lastOp.out.memory.TraitInfluences
       IN  /\ Len(calls) = Cardinality(DOMAIN own)
           /\ \A i \in DOMAIN calls :
                /\ calls[i].trait \in DOMAIN own
                /\ calls[i].influence = own[calls[i].trait]
           /\ \A i, j \in DOMAIN calls :
                calls[i].trait = calls[j].trait => i = j

\* C24: a trait's history is a first-in first-out window of at most 100
\* samples: a call of UpdateEvolutionMetrics appends the new sample behind
\* the ones held, and at length 100 it drops the oldest one and no other.
C24_HistoryIsSlidingWindow ==
  [][lastOp'.op = "UpdateEvolutionMetrics"
       => LET h == MetricsOf(traitEvolutionMetrics_,
                             lastOp'.id).HistoricalValues
              h2 == traitEvolutionMetrics_'[lastOp'.id].HistoricalValues
              v == lastOp'.out.newValue
          IN  /\ Len(h2) <= 100
              /\ h2 = IF Len(h) < 100 THEN Append(h, v)
                                      ELSE Append(Tail(h), v)]_vars
\* A sample arrived at a full history and the first sample is gone.
C24_Witness ==
  /\ lastOp.op = "UpdateEvolutionMetrics"
  /\ LET h == traitEvolutionMetrics_[lastOp.id].HistoricalValues
     IN  /\ Len(h) = 100
         /\ h[1] > SampleStep
         /\ h[100] = lastOp.out.newValue

\* C25: every connection in a connection set, of the memory manager or of
\* the persona's memory, has a strength between 0 and 1.
C25_StrengthsStayInUnitInterval ==
  /\ \A i \in DOMAIN memory_connections :
       /\ memory_connections[i].Strength >= 0
       /\ memory_connections[i].Strength <= MemScale
  /\ \A i \in DOMAIN MemoryConnections :
       /\ MemoryConnections[i].Strength >= 0
       /\ MemoryConnections[i].Strength <= Scale

\* C26: every stored memory id occurs in exactly one cluster and exactly once
\* in it, and no cluster holds a memory that is no longer stored.
C26_ClustersPartitionTheStore ==
  LET members == Flatten(clusters)
  IN  /\ \A id \in DOMAIN memories_ :
           Cardinality({i \in DOMAIN members : members[i].id = id}) = 1
      /\ \A i \in DOMAIN members : members[i].id \in DOMAIN memories_

\* C27: SaveToDatabase follows the transaction protocol.  Begin precedes every
\* Save; Commit is invoked only after Begin and every Save succeeded;
\* Rollback is invoked exactly when a Save or the Commit failed, never on a
\* transaction that was not begun successfully or that was committed; and
\* the call reports failure whenever it did not commit.
C27_TransactionProtocol ==
  lastOp.op = "SaveToDatabase"
    => LET calls == lastOp.out.calls
           At(i, name) == calls[i].call = name
           Begun(i) == \E j \in 1..(i - 1) :
                         At(j, "BeginTransaction") /\ calls[j].ok
           Committed(i) == \E j \in 1..(i - 1) :
                             At(j, "CommitTransaction") /\ calls[j].ok
       IN  /\ \A i \in DOMAIN calls :
                At(i, "SaveMemory")
                  => \E j \in 1..(i - 1) : At(j, "BeginTransaction")
           /\ \A i \in DOMAIN calls :
                At(i, "CommitTransaction")
                  => Begun(i) /\ \A j \in 1..(i - 1) : calls[j].ok
           /\ (\E i \in DOMAIN calls : At(i, "RollbackTransaction"))
                <=> (\E i \in DOMAIN calls :
                       /\ At(i, "SaveMemory") \/ At(i, "CommitTransaction")
                       /\ ~calls[i].ok)
           /\ \A i \in DOMAIN calls :
                At(i, "RollbackTransaction") => Begun(i) /\ ~Committed(i)
           /\ ~Committed(Len(calls) + 1) => ~lastOp.ok

\* C28: after a SwitchPersona call at most one persona is flagged Active and
\* it is the one GetActivePersona returns; a switch to an unknown persona, or
\* to one that became the target of a transition less than 5 minutes ago,
\* returns false and leaves the active persona, the personas' flags, the
\* history and the cooldowns as they were.
C28_SwitchKeepsOneActive ==
  [][lastOp'.op = "SwitchPersona"
       => /\ Cardinality({p \in DOMAIN personas_' : personas_'[p].Active})
               <= 1
          /\ \A p \in DOMAIN personas_' :
               personas_'[p].Active => p = activePersona_'
          /\ (\/ lastOp'.id \notin Personas
              \/ /\ lastOp'.id \in DOMAIN cooldowns_
                 /\ now - cooldowns_[lastOp'.id] < 5)
               => /\ ~lastOp'.ok
                  /\ UNCHANGED << activePersona_, personas_, history_,
                                  cooldowns_ >>]_vars
\* A switch refused by the cooldown, after two switches that were carried out.
C28_Witness ==
  /\ lastOp.op = "SwitchPersona"
  /\ ~lastOp.ok
  /\ lastOp.id = activePersona_
  /\ personas_[activePersona_].Active
  /\ Len(history_) = 2

\* C29: AddMemory with its ProcessMemories loses no memory.  Every memory that
\* was in short-term memory before the call is afterwards in short-term or
\* in long-term memory and not in both, and no memory with importance above
\* 0.7 is left in short-term memory.
C29_ProcessingLosesNoMemory ==
  [][(lastOp'.op = "AddMemory" /\ lastOp'.ok)
       => LET InShort(m) == \E i \in DOMAIN ShortTermMemories' :
                              ShortTermMemories'[i] = m
              InLong(m) == \E i \in DOMAIN LongTermMemories' :
                             LongTermMemories'[i] = m
          IN  /\ \A i \in DOMAIN ShortTermMemories :
                   /\ InShort(ShortTermMemories[i])
                        \/ InLong(ShortTermMemories[i])
                   /\ ~(InShort(ShortTermMemories[i])
                          /\ InLong(ShortTermMemories[i]))
              /\ \A i \in DOMAIN ShortTermMemories' :
                   ShortTermMemories'[i].Importance <= (7 * Scale) \div 10]_vars

\* C30: UpdateTrait and AddMemory called while no persona is active are
\* no-ops: the process lives on, nothing is written through db_ and no state
\* of the persona system changes.
C30_NoPersonaMeansNoOp ==
  [][(activePersona_ = NoPersona /\ lastOp'.op \in {"UpdateTrait", "AddMemory"})
       => /\ ~crashed'
          /\ UNCHANGED << activePersona_, personas_, history_, transitions_,
                          traits, TraitCorrelations, ShortTermMemories,
                          LongTermMemories, MemoryWeights, ActiveResonances,
                          EmotionalPatterns, MemoryConnections, cooldowns_,
                          persona_db >>]_vars

====
